---------------------------- MODULE Spec2Model ----------------------------
(***************************************************************************)
(* Model of the start_menu GNOME Shell extension: the preferences editor   *)
(* (prefs.js) and the running popup (extension.js), which share the files  *)
(* categories.jsonl and recents.jsonl.                                     *)
(*                                                                         *)
(* Text is a sequence of one-character strings.  A JSON value is a tagged  *)
(* record [t, v]; in-memory categories are records [name, rank, apps].     *)
(***************************************************************************)
EXTENDS Integers, Sequences, FiniteSets, TLC

(***************************************************************************)
(* Program constants                                                       *)
(***************************************************************************)
\* extension.js: const MAX_RECENTS = 15
MAX_RECENTS == 15
\* JavaScript null, as the rank of a special category ({ rank: null })
NullRank == -1
\* prefs.js: ALL_APPS_CAT_NAME / extension.js: ALL_APPS_CAT
ALL_APPS_CAT_NAME == <<"A", "l", "l", " ", "a", "p", "p", "s">>
\* prefs.js: SEARCH_APP_CAT_NAME / extension.js: SEARCH_APP_CAT
SEARCH_APP_CAT_NAME == <<"S", "e", "a", "r", "c", "h", " ", "a", "p", "p">>
\* ALLOWED_IMAGE_EXTENSIONS
ALLOWED_IMAGE_EXTENSIONS == {"jpeg", "jpg", "png", "bmp", "webp", "ico", "svg"}
\* the suffix test of bumpRecent and cleanupCategories
DotDesktop == <<".", "d", "e", "s", "k", "t", "o", "p">>

(***************************************************************************)
(* Generic helpers on sequences                                            *)
(***************************************************************************)
Range(s) == {s[i] : i \in DOMAIN s}

\* Array.prototype.findIndex / indexOf, 0 when absent (JavaScript's -1)
IndexOf(s, x) ==
    IF \E i \in DOMAIN s : s[i] = x
    THEN CHOOSE i \in DOMAIN s : s[i] = x /\ \A j \in 1..(i - 1) : s[j] # x
    ELSE 0

\* String.prototype.endsWith
EndsWith(s, suffix) ==
    /\ Len(s) >= Len(suffix)
    /\ SubSeq(s, Len(s) - Len(suffix) + 1, Len(s)) = suffix

(***************************************************************************)
(* JSON values                                                             *)
(***************************************************************************)
Str(s) == [t |-> "str", v |-> s]
Num(n) == [t |-> "num", v |-> n]
JNull == [t |-> "null", v |-> 0]
Arr(xs) == [t |-> "arr", v |-> xs]
\* members: a sequence of [k |-> text, val |-> JSON value], in property order
Obj(members) == [t |-> "obj", v |-> members]

\* obj.key, JNull standing for undefined when the property is absent
HasField(o, key) == o.t = "obj" /\ \E i \in DOMAIN o.v : o.v[i].k = key
GetField(o, key) == (CHOOSE m \in Range(o.v) : m.k = key).val

\* Defining a property while parsing: a repeated key keeps its first position
\* and takes the last value.
SetMember(members, key, val) ==
    IF \E i \in DOMAIN members : members[i].k = key
    THEN [i \in DOMAIN members |->
            IF members[i].k = key THEN [k |-> key, val |-> val] ELSE members[i]]
    ELSE Append(members, [k |-> key, val |-> val])

(***************************************************************************)
(* JSON.stringify                                                          *)
(***************************************************************************)
DigitChars == <<"0", "1", "2", "3", "4", "5", "6", "7", "8", "9">>

RECURSIVE Digits(_)
Digits(n) ==
    IF n < 10 THEN <<DigitChars[n + 1]>>
    ELSE Digits(n \div 10) \o <<DigitChars[(n % 10) + 1]>>

\* an escaping that leaves a line feed as it is
EscapeCharKeepingLineFeed(c) ==
    IF c = "\"" THEN <<"\\", "\"">>
    ELSE IF c = "\\" THEN <<"\\", "\\">>
    ELSE <<c>>

\* the characters JSON.stringify writes for c inside a string
EscapeChar(c) ==
    IF c = "\"" THEN <<"\\", "\"">>
    ELSE IF c = "\\" THEN <<"\\", "\\">>
    ELSE IF c = "\n" THEN <<"\\", "n">>
    ELSE <<c>>

RECURSIVE EscapeString(_)
EscapeString(s) ==
    IF s = <<>> THEN <<>> ELSE EscapeChar(Head(s)) \o EscapeString(Tail(s))

Quote(s) == <<"\"">> \o EscapeString(s) \o <<"\"">>

RECURSIVE JSONstringify(_)
RECURSIVE StringifyElems(_)
RECURSIVE StringifyMembers(_)
JSONstringify(x) ==
    CASE x.t = "str" -> Quote(x.v)
      [] x.t = "num" -> Digits(x.v)
      [] x.t = "null" -> <<"n", "u", "l", "l">>
      [] x.t = "arr" -> <<"[">> \o StringifyElems(x.v) \o <<"]">>
      [] x.t = "obj" -> <<"{">> \o StringifyMembers(x.v) \o <<"}">>

StringifyElems(xs) ==
    IF xs = <<>> THEN <<>>
    ELSE JSONstringify(Head(xs))
         \o (IF Len(xs) > 1 THEN <<",">> ELSE <<>>)
         \o StringifyElems(Tail(xs))

StringifyMembers(ms) ==
    IF ms = <<>> THEN <<>>
    ELSE Quote(Head(ms).k) \o <<":">> \o JSONstringify(Head(ms).val)
         \o (IF Len(ms) > 1 THEN <<",">> ELSE <<>>)
         \o StringifyMembers(Tail(ms))

(***************************************************************************)
(* JSON.parse: a recursive-descent parser over text s from index i.        *)
(* A result is [ok, v, i]: whether a value was read, the value, and the    *)
(* index after it.  ok = FALSE is the SyntaxError JSON.parse throws.       *)
(***************************************************************************)
Fail == [ok |-> FALSE, v |-> JNull, i |-> 0]
Okay(val, next) == [ok |-> TRUE, v |-> val, i |-> next]

IsDigit(c) == \E d \in DOMAIN DigitChars : DigitChars[d] = c
DigitValue(c) == (CHOOSE d \in DOMAIN DigitChars : DigitChars[d] = c) - 1
IsWhitespace(c) == c \in {" ", "\n"}

At(s, i) == IF i \in DOMAIN s THEN s[i] ELSE "EOF"

RECURSIVE SkipWs(_, _)
SkipWs(s, i) == IF i \in DOMAIN s /\ s[i] = " " THEN SkipWs(s, i + 1) ELSE i

\* the characters of a string literal after its opening quote
RECURSIVE ParseChars(_, _, _)
ParseChars(s, i, acc) ==
    LET c == At(s, i) IN
    IF c = "EOF" \/ c = "\n" THEN Fail
    ELSE IF c = "\"" THEN Okay(Str(acc), i + 1)
    ELSE IF c = "\\" THEN
        LET e == At(s, i + 1) IN
        IF e = "\"" \/ e = "\\" THEN ParseChars(s, i + 2, Append(acc, e))
        ELSE IF e = "n" THEN ParseChars(s, i + 2, Append(acc, "\n"))
        ELSE Fail
    ELSE ParseChars(s, i + 1, Append(acc, c))

RECURSIVE ParseDigits(_, _, _)
ParseDigits(s, i, acc) ==
    IF IsDigit(At(s, i)) THEN ParseDigits(s, i + 1, acc * 10 + DigitValue(s[i]))
    ELSE Okay(Num(acc), i)

RECURSIVE ParseValue(_, _)
RECURSIVE ParseElems(_, _, _)
RECURSIVE ParseMembers(_, _, _)
ParseValue(s, i0) ==
    LET i == SkipWs(s, i0)
        c == At(s, i)
    IN  IF c = "\"" THEN ParseChars(s, i + 1, <<>>)
        ELSE IF c = "0" THEN Okay(Num(0), i + 1)
        ELSE IF IsDigit(c) THEN ParseDigits(s, i, 0)
        ELSE IF c = "n" THEN
            IF i + 3 <= Len(s) /\ SubSeq(s, i, i + 3) = <<"n", "u", "l", "l">>
            THEN Okay(JNull, i + 4)
            ELSE Fail
        ELSE IF c = "[" THEN
            IF At(s, SkipWs(s, i + 1)) = "]" THEN Okay(Arr(<<>>), SkipWs(s, i + 1) + 1)
            ELSE ParseElems(s, i + 1, <<>>)
        ELSE IF c = "{" THEN
            IF At(s, SkipWs(s, i + 1)) = "}" THEN Okay(Obj(<<>>), SkipWs(s, i + 1) + 1)
            ELSE ParseMembers(s, i + 1, <<>>)
        ELSE Fail

\* elements after "[" or ","
ParseElems(s, i, acc) ==
    LET r == ParseValue(s, i) IN
    IF ~r.ok THEN Fail
    ELSE LET j == SkipWs(s, r.i)
             c == At(s, j)
         IN  IF c = "," THEN ParseElems(s, j + 1, Append(acc, r.v))
             ELSE IF c = "]" THEN Okay(Arr(Append(acc, r.v)), j + 1)
             ELSE Fail

\* members after "{" or ","
ParseMembers(s, i0, acc) ==
    LET i == SkipWs(s, i0) IN
    IF At(s, i) # "\"" THEN Fail
    ELSE LET key == ParseChars(s, i + 1, <<>>) IN
         IF ~key.ok THEN Fail
         ELSE LET j == SkipWs(s, key.i) IN
              IF At(s, j) # ":" THEN Fail
              ELSE LET r == ParseValue(s, j + 1) IN
                   IF ~r.ok THEN Fail
                   ELSE LET k == SkipWs(s, r.i)
                            c == At(s, k)
                            ms == SetMember(acc, key.v.v, r.v)
                        IN  IF c = "," THEN ParseMembers(s, k + 1, ms)
                            ELSE IF c = "}" THEN Okay(Obj(ms), k + 1)
                            ELSE Fail

\* JSON.parse(line): one value and nothing but white space after it
JSONparse(line) ==
    LET r == ParseValue(line, 1) IN
    IF r.ok /\ SkipWs(line, r.i) = Len(line) + 1 THEN r ELSE Fail

(***************************************************************************)
(* Files.  A file is [exists, text]; reading an absent file throws.        *)
(***************************************************************************)
NoFile == [exists |-> FALSE, text |-> <<>>]
FileOf(text) == [exists |-> TRUE, text |-> text]

\* String.prototype.split('\n'): the pieces between the line feeds
LineFeeds(text) == {i \in DOMAIN text : text[i] = "\n"}

\* the position of the k-th line feed; 0 before the first, Len + 1 after the last
LineFeedAt(text, k) ==
    IF k = 0 THEN 0
    ELSE IF k > Cardinality(LineFeeds(text)) THEN Len(text) + 1
    ELSE CHOOSE i \in LineFeeds(text) :
            Cardinality({j \in LineFeeds(text) : j < i}) = k - 1

Split(text) ==
    [k \in 1..(Cardinality(LineFeeds(text)) + 1) |->
        SubSeq(text, LineFeedAt(text, k - 1) + 1, LineFeedAt(text, k) - 1)]

\* line.trim().length > 0
NotBlank(line) == \E i \in DOMAIN line : ~IsWhitespace(line[i])

\* text.split('\n').filter(line => line.trim().length > 0)
NonBlankLines(text) == SelectSeq(Split(text), NotBlank)

\* Array.prototype.join('\n')
RECURSIVE JoinLines(_)
JoinLines(lines) ==
    IF lines = <<>> THEN <<>>
    ELSE IF Len(lines) = 1 THEN Head(lines)
    ELSE Head(lines) \o <<"\n">> \o JoinLines(Tail(lines))

(***************************************************************************)
(* Categories as JSON objects                                              *)
(***************************************************************************)
KeyName == <<"n", "a", "m", "e">>
KeyRank == <<"r", "a", "n", "k">>
KeyApps == <<"a", "p", "p", "s">>
KeyId == <<"i", "d">>
KeyTs == <<"t", "s">>

RankToJSON(rank) == IF rank = NullRank THEN JNull ELSE Num(rank)
RankOfJSON(x) == IF x.t = "null" THEN NullRank ELSE x.v

AppToJSON(app) ==
    Obj(<<[k |-> KeyId, val |-> Str(app.id)],
          [k |-> KeyName, val |-> Str(app.name)],
          [k |-> KeyRank, val |-> RankToJSON(app.rank)]>>)

CategoryToJSON(category) ==
    Obj(<<[k |-> KeyName, val |-> Str(category.name)],
          [k |-> KeyRank, val |-> RankToJSON(category.rank)],
          [k |-> KeyApps,
           val |-> Arr([i \in DOMAIN category.apps |-> AppToJSON(category.apps[i])])]>>)

\* The object JSON.parse returned, read through .id, .name and .rank
AppOfJSON(o) ==
    [id |-> GetField(o, KeyId).v,
     name |-> GetField(o, KeyName).v,
     rank |-> RankOfJSON(GetField(o, KeyRank))]

\* The object JSON.parse returned, read through .name, .rank and .apps
CategoryOfJSON(o) ==
    [name |-> GetField(o, KeyName).v,
     rank |-> RankOfJSON(GetField(o, KeyRank)),
     apps |-> LET xs == GetField(o, KeyApps).v
              IN  [i \in DOMAIN xs |-> AppOfJSON(xs[i])]]

(***************************************************************************)
(* The category map: a JavaScript Map keyed by name, kept as the sequence  *)
(* of its values in insertion order (the key of an entry is its name).     *)
(***************************************************************************)
MapHas(map, name) == \E i \in DOMAIN map : map[i].name = name
MapGet(map, name) == map[CHOOSE i \in DOMAIN map : map[i].name = name]
MapKeys(map) == [i \in DOMAIN map |-> map[i].name]

\* Map.prototype.set: an existing key keeps its position
MapSet(map, category) ==
    IF MapHas(map, category.name)
    THEN [i \in DOMAIN map |->
            IF map[i].name = category.name THEN category ELSE map[i]]
    ELSE Append(map, category)

\* Map.prototype.delete
MapDelete(map, name) == SelectSeq(map, LAMBDA c : c.name # name)

\* new Map(entries): the entries are set one after the other
RECURSIVE MapFromEntries(_, _)
MapFromEntries(map, entries) ==
    IF entries = <<>> THEN map
    ELSE MapFromEntries(MapSet(map, Head(entries)), Tail(entries))

(***************************************************************************)
(* loadCategories (prefs.js) and loadCategoriesFromDisk (extension.js)     *)
(***************************************************************************)
\* lines.forEach(line => { category = JSON.parse(line); map.set(...) }),
\* stopped by the first line on which JSON.parse, or reading .name of
\* null, throws
RECURSIVE ParseLinesInto(_, _)
ParseLinesInto(map, lines) ==
    IF lines = <<>> THEN [map |-> map, threw |-> FALSE]
    ELSE LET r == JSONparse(Head(lines)) IN
         IF ~r.ok \/ r.v.t = "null" THEN [map |-> map, threw |-> TRUE]
         ELSE ParseLinesInto(MapSet(map, CategoryOfJSON(r.v)), Tail(lines))

\* The map after the call and how the call ended: "ok", "read_error" (the
\* file could not be read) or "parse_error" (a line threw).
loadCategories(categoriesMap, file) ==
    IF ~file.exists THEN [map |-> categoriesMap, outcome |-> "read_error"]
    ELSE LET r == ParseLinesInto(<<>>, NonBlankLines(file.text))
         IN  [map |-> r.map,
              outcome |-> IF r.threw THEN "parse_error" ELSE "ok"]

loadCategoriesFromDisk(categoriesMap, file) ==
    IF ~file.exists THEN [map |-> categoriesMap, outcome |-> "read_error"]
    ELSE LET r == ParseLinesInto(<<>>, NonBlankLines(file.text))
         IN  [map |-> r.map,
              outcome |-> IF r.threw THEN "parse_error" ELSE "ok"]

\* saveCategoriesToFile: the text written to categories.jsonl
saveCategoriesToFile(map) ==
    FileOf(JoinLines([i \in DOMAIN map |-> JSONstringify(CategoryToJSON(map[i]))])
           \o <<"\n">>)

(***************************************************************************)
(* Recent apps (extension.js).  The entries are the parsed objects.        *)
(***************************************************************************)
RecentOf(id, ts) == Obj(<<[k |-> KeyId, val |-> Str(id)], [k |-> KeyTs, val |-> Num(ts)]>>)

\* recent && typeof recent.id === 'string'
HasStringId(x) == x.t = "obj" /\ HasField(x, KeyId) /\ GetField(x, KeyId).t = "str"

RecentId(x) == GetField(x, KeyId).v

\* lines.map(line => JSON.parse(line)): the values, or threw
RECURSIVE ParseAll(_)
ParseAll(lines) ==
    IF lines = <<>> THEN [vals |-> <<>>, threw |-> FALSE]
    ELSE LET r == JSONparse(Head(lines))
             rest == ParseAll(Tail(lines))
         IN  IF ~r.ok \/ rest.threw THEN [vals |-> <<>>, threw |-> TRUE]
             ELSE [vals |-> <<r.v>> \o rest.vals, threw |-> FALSE]

\* Array.prototype.slice(0, n)
Slice(s, n) == SubSeq(s, 1, IF Len(s) < n THEN Len(s) ELSE n)

loadRecentsFromDisk(file) ==
    IF ~file.exists THEN <<>>
    ELSE LET r == ParseAll(NonBlankLines(file.text))
         IN  IF r.threw THEN <<>>
             ELSE Slice(SelectSeq(r.vals, HasStringId), MAX_RECENTS)

\* saveRecentsToDisk: the text written to recents.jsonl
saveRecentsToDisk(list) ==
    FileOf(JoinLines([i \in DOMAIN list |-> JSONstringify(list[i])]))

\* if (!desktopId || !desktopId.endsWith('.desktop')) return;
Ignored(desktopId) == desktopId = <<>> \/ ~EndsWith(desktopId, DotDesktop)

\* a bumpRecent that does not take the earlier entry of the id out
bumpRecentKeepingOld(list, desktopId, now) ==
    IF Ignored(desktopId) THEN list
    ELSE Slice(<<RecentOf(desktopId, now)>> \o list, MAX_RECENTS)

\* bumpRecent: the list after the call
bumpRecent(list, desktopId, now) ==
    IF Ignored(desktopId) THEN list
    ELSE Slice(<<RecentOf(desktopId, now)>>
               \o SelectSeq(list, LAMBDA r : RecentId(r) # desktopId),
               MAX_RECENTS)

(***************************************************************************)
(* Array.prototype.sort(compare): stable; before[i, j] is                   *)
(* compare(s[i], s[j]) < 0                                                 *)
(***************************************************************************)
Sort(s, before) ==
    LET \* the place of s[i]: after what sorts before it and after the equal
        \* elements that precede it
        Place(i) == 1 + Cardinality({j \in DOMAIN s :
                            \/ before[j, i]
                            \/ (~before[i, j] /\ j < i)})
    IN  [k \in DOMAIN s |-> s[CHOOSE i \in DOMAIN s : Place(i) = k]]

\* (a, b) => a.rank - b.rank
ByRank(a, b) == a.rank < b.rank

\* the comparator of refreshCategoriesListBox: null ranks go to the end
ByRankNullLast(a, b) ==
    IF a.rank = NullRank THEN FALSE
    ELSE IF b.rank = NullRank THEN TRUE
    ELSE a.rank < b.rank

SortByRank(s) == Sort(s, [i, j \in DOMAIN s |-> ByRank(s[i], s[j])])
SortByRankNullLast(s) == Sort(s, [i, j \in DOMAIN s |-> ByRankNullLast(s[i], s[j])])

\* index + 1 as the rank of every element
Renumbered(s) == [i \in DOMAIN s |-> [s[i] EXCEPT !.rank = i]]

Max(S) == CHOOSE x \in S : \A y \in S : y <= x

(***************************************************************************)
(* prefs.js: the operations on the category map                            *)
(***************************************************************************)
\* app.id.endsWith('.desktop') ? app.id : `${app.id}.desktop`
DesktopIdOf(id) == IF EndsWith(id, DotDesktop) THEN id ELSE id \o DotDesktop

\* cleanupCategories: the map afterwards and the value returned
cleanupCategory(category, shown) ==
    LET validApps == SelectSeq(category.apps, LAMBDA app : DesktopIdOf(app.id) \in shown)
    IN  IF category.apps = <<>> \/ Len(validApps) = Len(category.apps) THEN category
        ELSE [category EXCEPT !.apps = Renumbered(SortByRank(validApps))]

cleanupCategories(map, shown) ==
    LET cleaned == [i \in DOMAIN map |-> cleanupCategory(map[i], shown)]
    IN  [map |-> cleaned,
         changesMade |-> \E i \in DOMAIN map :
                            Len(cleaned[i].apps) # Len(map[i].apps)]

\* refreshCategoriesListBox: the categories of the rows, in list order
ListRows(map) ==
    MapKeys(SelectSeq(SortByRankNullLast(map), LAMBDA c : c.apps # <<>>))

\* _populateCategoriesMenu: the normal categories of the menu, in menu order
\* (the comparator puts a null rank after a rank and compares two ranks)
populateCategoriesMenu(map) ==
    MapKeys(SortByRankNullLast(SelectSeq(map,
        LAMBDA c : c.name # ALL_APPS_CAT_NAME /\ c.name # SEARCH_APP_CAT_NAME)))
\* a close button that leaves the ranks as they are
RanksKeptAfterDelete(map) == map

\* the close button of a row: delete, then rank the ranked categories 1..N
RanksAfterDelete(map) ==
    LET ranked == SortByRank(SelectSeq(map, LAMBDA c : c.rank # NullRank))
    IN  [i \in DOMAIN map |->
            IF map[i].rank = NullRank THEN map[i]
            ELSE [map[i] EXCEPT !.rank = IndexOf(MapKeys(ranked), map[i].name)]]

closeCategory(map, name) == RanksAfterDelete(MapDelete(map, name))

\* a move that gives the selected category the target's rank and leaves the
\* target its own
moveSelectedCategoryOneSided(map, categoryName, delta) ==
    LET unmoved == [map |-> map, saved |-> FALSE] IN
    IF ~MapHas(map, categoryName) \/ MapGet(map, categoryName).rank = NullRank
    THEN unmoved
    ELSE LET rankedCategories == SortByRank(SelectSeq(map, LAMBDA c : c.rank # NullRank))
             currentIndex == IndexOf(MapKeys(rankedCategories), categoryName)
             newIndex == currentIndex + delta
         IN  IF newIndex < 1 \/ newIndex > Len(rankedCategories) THEN unmoved
             ELSE [map |-> [i \in DOMAIN map |->
                              IF map[i].name = categoryName
                              THEN [map[i] EXCEPT !.rank = rankedCategories[newIndex].rank]
                              ELSE map[i]],
                   saved |-> TRUE]

\* a move without the boundary test: past either end it wraps around
moveSelectedCategoryWrapping(map, categoryName, delta) ==
    LET unmoved == [map |-> map, saved |-> FALSE] IN
    IF ~MapHas(map, categoryName) \/ MapGet(map, categoryName).rank = NullRank
    THEN unmoved
    ELSE LET rankedCategories == SortByRank(SelectSeq(map, LAMBDA c : c.rank # NullRank))
             currentIndex == IndexOf(MapKeys(rankedCategories), categoryName)
             newIndex == ((currentIndex + delta - 1) % Len(rankedCategories)) + 1
             target == rankedCategories[newIndex]
             current == MapGet(map, categoryName)
         IN  [map |-> [i \in DOMAIN map |->
                         IF map[i].name = categoryName
                         THEN [map[i] EXCEPT !.rank = target.rank]
                         ELSE IF map[i].name = target.name
                         THEN [map[i] EXCEPT !.rank = current.rank]
                         ELSE map[i]],
               saved |-> TRUE]

\* moveSelectedCategory: the map afterwards and whether it was saved
moveSelectedCategory(map, categoryName, delta) ==
    LET unmoved == [map |-> map, saved |-> FALSE] IN
    IF ~MapHas(map, categoryName) \/ MapGet(map, categoryName).rank = NullRank
    THEN unmoved
    ELSE LET rankedCategories == SortByRank(SelectSeq(map, LAMBDA c : c.rank # NullRank))
             currentIndex == IndexOf(MapKeys(rankedCategories), categoryName)
             newIndex == currentIndex + delta
         IN  IF newIndex < 1 \/ newIndex > Len(rankedCategories) THEN unmoved
             ELSE LET target == rankedCategories[newIndex]
                      current == MapGet(map, categoryName)
                  IN  [map |-> [i \in DOMAIN map |->
                                   IF map[i].name = categoryName
                                   THEN [map[i] EXCEPT !.rank = target.rank]
                                   ELSE IF map[i].name = target.name
                                   THEN [map[i] EXCEPT !.rank = current.rank]
                                   ELSE map[i]],
                       saved |-> TRUE]

\* an icon file `${base}.${ext}` of an icon directory
IconFile(base, ext) == [base |-> base, ext |-> ext]

\* String.prototype.toLowerCase on the extensions of the chosen files
toLowerCase(ext) ==
    CASE ext = "PNG" -> "png"
      [] ext = "SVG" -> "svg"
      [] OTHER -> ext

\* icon.path / row.iconPath: '' or the path of the file the user chose, with
\* its extension and whether a copy of it succeeds
NoPath == [ext |-> "", readable |-> FALSE]
ChosenPath(ext, readable) == [ext |-> ext, readable |-> readable]

\* fileMap.set(baseName, extension) and fileMap.delete(baseName)
IndexSet(index, base, ext) ==
    [b \in DOMAIN index \cup {base} |-> IF b = base THEN ext ELSE index[b]]
IndexDelete(index, base) == [b \in DOMAIN index \ {base} |-> index[b]]

\* getAllIcons: the maps it can return for a directory; of two files with one
\* base name the one enumerated last stays
getAllIcons(dir) ==
    LET images == {f \in dir : f.ext \in ALLOWED_IMAGE_EXTENSIONS}
        bases == {f.base : f \in images}
    IN  {index \in [bases -> {f.ext : f \in images}] :
            \A b \in bases : IconFile(b, index[b]) \in images}

\* removePicture on [dir, index]: without an entry nothing happens; when
\* file.delete throws (no such file) the entry stays
removePicture(st, baseName) ==
    IF baseName \notin DOMAIN st.index THEN st
    ELSE LET file == IconFile(baseName, st.index[baseName]) IN
         IF file \notin st.dir THEN st
         ELSE [dir |-> st.dir \ {file}, index |-> IndexDelete(st.index, baseName)]

\* copyRenameFile on [dir, index] with the chosen path: removePicture, then
\* the copy; when the copy throws the rest is skipped
copyRenameFile(st, newBaseName, path) ==
    LET removed == removePicture(st, newBaseName) IN
    IF ~path.readable THEN removed
    ELSE [dir |-> removed.dir \cup {IconFile(newBaseName, path.ext)},
          index |-> IndexSet(removed.index, newBaseName, path.ext)]

\* the add button, for the selected rows in turn: copyRenameFile(false,
\* row.id, row) when row.iconPath is set
RECURSIVE copyRowIcons(_, _, _)
copyRowIcons(st, rows, paths) ==
    IF rows = <<>> THEN st
    ELSE copyRowIcons(IF paths[Head(rows)] # NoPath
                      THEN copyRenameFile(st, Head(rows), paths[Head(rows)])
                      ELSE st,
                      Tail(rows), paths)

\* the add button, "Handle category icon": a newly chosen icon is copied and
\* the icon of the old name removed; on a rename without a new icon the old
\* icon is copied to the new name and removed
categoryIconAfterAdd(st, path, isUpdate, oldCategoryName, newName) ==
    IF path # NoPath
    THEN LET copied == copyRenameFile(st, newName, path) IN
         IF oldCategoryName # <<>> /\ oldCategoryName # newName
         THEN removePicture(copied, oldCategoryName)
         ELSE copied
    ELSE IF isUpdate /\ oldCategoryName # newName /\ oldCategoryName \in DOMAIN st.index
    THEN LET oldExtension == st.index[oldCategoryName] IN
         IF IconFile(oldCategoryName, oldExtension) \notin st.dir THEN st
         ELSE removePicture([dir |-> st.dir \cup {IconFile(newName, oldExtension)},
                             index |-> IndexSet(st.index, newName, oldExtension)],
                            oldCategoryName)
    ELSE st

\* the rank the add button gives: the old rank on an update (?? 1), else
\* Math.max(0, ...ranks that are not null) + 1
rankForAdd(map, isUpdate, oldCategoryName) ==
    IF isUpdate
    THEN IF MapHas(map, oldCategoryName) /\ MapGet(map, oldCategoryName).rank # NullRank
         THEN MapGet(map, oldCategoryName).rank
         ELSE 1
    ELSE Max({0} \cup {map[i].rank : i \in {j \in DOMAIN map : map[j].rank # NullRank}}) + 1

\* the map the add button builds: on an update the entry at the position of
\* the old name is replaced and the Map rebuilt from the entries; else set()
mapAfterAdd(map, isUpdate, oldCategoryName, newCategory) ==
    LET insertPosition == IF isUpdate THEN IndexOf(MapKeys(map), oldCategoryName) ELSE 0
    IN  IF insertPosition >= 1
        THEN MapFromEntries(<<>>, [map EXCEPT ![insertPosition] = newCategory])
        ELSE MapSet(map, newCategory)

(***************************************************************************)
(* Bounds and the inputs drawn from them                                   *)
(***************************************************************************)
\* handler events (file, directory and installed-changed events) per run
MaxEvents == 4
\* bumps of an id never bumped before, per run
MaxFresh == 16
\* bumps of an id bumped before, per run
MaxRebumps == 1
\* edits of categories.jsonl from outside the popup, per run
MaxEdits == 2
\* lines of a recents.jsonl left by another program
MaxLines == 3
\* categories of a store that is saved and loaded back
MaxStore == 2
\* user actions in the preferences window, per run
MaxClicks == 4
\* applications launched beside an open preferences window
MaxLaunches == 2

\* desktop ids: "a.desktop", "b.desktop" in categories, "<n>.desktop" in recents
AppA == <<"a">> \o DotDesktop
AppB == <<"b">> \o DotDesktop
AppIds == {AppA, AppB}
RecentAppId(n) == Digits(n) \o DotDesktop
\* an id bumpRecent ignores: it does not end in ".desktop"
BareId == <<"x">>
\* the applications that are launched a second time: the first two launched,
\* at any moment (at the head of the list, inside it, or dropped from it)
Relaunched == {1, 2}

AppEntry(id, name, rank) == [id |-> id, name |-> name, rank |-> rank]
Category(name, rank, apps) == [name |-> name, rank |-> rank, apps |-> apps]

NameWork == <<"W", "o", "r", "k">>
NamePlay == <<"P", "l", "a", "y">>
NameGame == <<"G", "a", "m", "e">>

\* the store of the specification's scenarios: Work (rank 1, one app), Play (rank 2)
StoreWorkPlay ==
    <<Category(NameWork, 1, <<AppEntry(AppA, <<"A">>, 1)>>),
      Category(NamePlay, 2, <<AppEntry(AppB, <<"B">>, 1)>>)>>
StorePlay == <<Category(NamePlay, 1, <<AppEntry(AppB, <<"B">>, 1)>>)>>

\* a line that is not JSON
GarbageLine == <<"{", "o", "o", "p", "s">>

StoreAllApps ==
    <<Category(ALL_APPS_CAT_NAME, NullRank, <<>>),
      Category(NameWork, 1, <<AppEntry(AppA, <<"A">>, 1), AppEntry(AppB, <<"B">>, 2)>>)>>

\* app.get_display_name()
DisplayName(id) == IF id = AppA THEN <<"A">> ELSE <<"B">>
\* the rows of the applications list, sorted by name
AppRowOrder == <<AppA, AppB>>

\* a store with a category that has applications and no rank
StoreUnranked ==
    <<Category(NameWork, 1, <<AppEntry(AppA, <<"A">>, 1)>>),
      Category(NameGame, NullRank, <<AppEntry(AppB, <<"B">>, 1)>>),
      Category(NamePlay, 2, <<AppEntry(AppB, <<"B">>, 1)>>)>>

\* the apps lists cleanupCategories is run on: up to two entries of different
\* applications with ranks from 1..3, in any order
CleanupApps ==
    {<<>>}
    \cup {<<AppEntry(id, DisplayName(id), r)>> : id \in AppIds, r \in 1..3}
    \cup {<<AppEntry(ids[1], DisplayName(ids[1]), r1), AppEntry(ids[2], DisplayName(ids[2]), r2)>> :
            ids \in {p \in AppIds \X AppIds : p[1] # p[2]}, r1 \in 1..3, r2 \in 1..3}
\* the stores cleanupCategories is run on: Work alone, or Work and Play
CleanupStores ==
    {<<Category(NameWork, 1, apps)>> : apps \in CleanupApps}
    \cup {<<Category(NameWork, 1, apps1), Category(NamePlay, r, apps2)>> :
            apps1 \in CleanupApps, apps2 \in CleanupApps, r \in {2, NullRank}}

\* a store with both special categories, which the popup shows as the
\* "Show all applications" item and the search item
StoreMenu ==
    <<Category(ALL_APPS_CAT_NAME, NullRank, <<>>),
      Category(SEARCH_APP_CAT_NAME, NullRank, <<>>),
      Category(NameWork, 1, <<AppEntry(AppA, <<"A">>, 1)>>)>>

\* the stores an edit from outside may leave: Work, Play and Game with one
\* application each, in any order of the lines and with any ranks from 1..2
TiedStores ==
    {[i \in 1..3 |-> Category(names[i], ranks[i], <<AppEntry(AppA, <<"A">>, 1)>>)] :
        names \in {p \in [1..3 -> {NameWork, NamePlay, NameGame}] : \A i, j \in 1..3 : i # j => p[i] # p[j]},
        ranks \in [1..3 -> 1..2]}
\* a store whose category in the middle holds only an application that may
\* not be installed
StoreHidden ==
    <<Category(NamePlay, 1, <<AppEntry(AppB, <<"B">>, 1)>>),
      Category(NameWork, 2, <<AppEntry(AppA, <<"A">>, 1)>>),
      Category(NameGame, 3, <<AppEntry(AppB, <<"B">>, 1)>>)>>

\* the files the user may choose in the file chooser: an image that can be
\* copied, one whose copy fails, and one named with an upper-case extension
ChosenPaths == {ChosenPath("svg", TRUE), ChosenPath("png", FALSE), ChosenPath("PNG", TRUE)}
\* the icons an earlier session of the preferences window may have left
StoredCategoryIcons == {IconFile(NameWork, "png"), IconFile(NamePlay, "svg")}
StoredAppIcons == {IconFile(AppA, "png")}

\* the categories files the preferences window may find
EditorFiles ==
    {NoFile, saveCategoriesToFile(StoreWorkPlay), saveCategoriesToFile(StoreAllApps),
     saveCategoriesToFile(StoreUnranked)}
\* the sets of installed applications that are shown
InstalledChoices == {{AppA, AppB}, {AppB}}
\* the names the user types
EditorNames == {NameWork, NamePlay, NameGame}

\* names, ranks and app lists of the stores that are saved and loaded back
RoundTripNames == {<<"a">>, <<"\"", "b">>, <<"\\", "n">>, <<"\n", " ">>}
RoundTripRanks == {NullRank, 12}
RoundTripApps ==
    {<<>>, <<AppEntry(AppA, <<"A", "\"">>, 1), AppEntry(<<"b", "\\">>, <<" ">>, 2)>>}
RoundTripCategories ==
    {Category(n, r, a) : n \in RoundTripNames, r \in RoundTripRanks, a \in RoundTripApps}
RoundTripStores ==
    {st \in UNION {[1..k -> RoundTripCategories] : k \in 0..MaxStore} :
        \A i, j \in DOMAIN st : i # j => st[i].name # st[j].name}

\* the lines another program may leave in recents.jsonl: a record of id 1 or
\* 2, a line that is not JSON, an object without an id
LineKinds == {"record1", "record2", "garbage", "noid"}
RecentLine(kind) ==
    CASE kind = "record1" -> JSONstringify(RecentOf(RecentAppId(1), 7))
      [] kind = "record2" -> JSONstringify(RecentOf(RecentAppId(2), 8))
      [] kind = "garbage" -> GarbageLine
      [] kind = "noid" -> JSONstringify(Obj(<<[k |-> KeyTs, val |-> Num(5)]>>))
RecentsFiles == UNION {[1..k -> LineKinds] : k \in 1..MaxLines}

\* the text of store with a line that is not JSON put after its first k lines
WithGarbageAfter(store, k) ==
    LET lines == [i \in DOMAIN store |-> JSONstringify(CategoryToJSON(store[i]))]
    IN  FileOf(JoinLines(SubSeq(lines, 1, k) \o <<GarbageLine>>
                         \o SubSeq(lines, k + 1, Len(lines))) \o <<"\n">>)

\* what an edit from outside may leave in categories.jsonl
ExternalFiles ==
    {saveCategoriesToFile(StoreWorkPlay), saveCategoriesToFile(StorePlay),
     WithGarbageAfter(StoreWorkPlay, 1), WithGarbageAfter(StorePlay, 0)}

\* the categories files the preferences window is opened on
OpenFiles ==
    {saveCategoriesToFile(StoreWorkPlay), saveCategoriesToFile(StoreAllApps),
     saveCategoriesToFile(StoreHidden), WithGarbageAfter(StoreWorkPlay, 1)}

\* Gio.FileMonitorEvent
FileMonitorEvents ==
    {"CHANGED", "CHANGES_DONE_HINT", "DELETED", "CREATED", "ATTRIBUTE_CHANGED"}

(***************************************************************************)
(* State                                                                   *)
(***************************************************************************)
VARIABLES
    \* the files of the data directory
    catFile,          \* categories.jsonl
    recFile,          \* recents.jsonl
    iconCategoriesDir, \* the icon files of icons/categories
    iconAppsDir,       \* the icon files of icons/apps
    \* extension.js module state
    enabled,          \* enable() has run and disable() has not
    extCategories,    \* categories
    recents,          \* recents
    reloadTimeoutId,  \* reloadTimeoutId, 0 when none
    timers,           \* the armed GLib timeout sources: [id, kind]
    nextSourceId,     \* the id GLib.timeout_add returns next
    clock,            \* Date.now()
    idleSources,      \* the pending GLib idle sources: [id, kind]
    menuItemSearch,   \* myPopup.menuItemSearch exists
    extAllIconCategories, \* allIconCategories
    extAllIconApps,       \* allIconApps
    monitorSeen,          \* what the categories-file monitor last saw of what it watches
    allApps,          \* allApps
    searchItemLive,   \* the item myPopup.menuItemSearch refers to is a child of categoriesMenu
    focusedCategory,  \* myPopup.focusedCategory
    appsMenu,         \* the children of myPopup.appsMenu
    focusedApp,       \* myPopup.focusedApp
    isInAppsColumn,   \* myPopup.isInAppsColumn
    searchText,       \* the text of menuItemSearch.searchEntry
    installed,        \* the installed applications that should be shown
    \* prefs.js module state and widgets
    edOpen,             \* fillPreferencesWindow has run
    categories,         \* categories
    categoryEntryText,  \* categoryEntry.text
    selectedRow,        \* the category of the selected row of categoriesListBox
    addButtonLabel,     \* addButton.label
    addButtonSensitive, \* addButton.sensitive
    appsListSensitive,  \* appsListBox.sensitive
    selectionRank,      \* row.selectionRank of the rows of appsListBox
    selectedApps,       \* the selected rows of appsListBox
    allAppsActive,      \* allAppsCheckbox.active
    searchAppActive,    \* searchAppCheckbox.active
    allIconCategories,  \* allIconCategories
    allIconApps,        \* allIconApps
    widgetIconPath,     \* categoryIcon.path, allAppsIcon.path, searchAppIcon.path
    rowIconPath,        \* row.iconPath of the rows of appsListBox
    \* observers (no effect on the program)
    nEvents,          \* handler events so far
    nEdits,           \* outside edits so far
    nFresh,           \* ids bumped so far
    nRebumps,         \* bumps of an id bumped before
    bumpSeq,          \* id number -> sequence number of its last bump
    fileLines,        \* the kinds of the lines another program left in recents.jsonl
    nClicks,          \* user actions in the preferences window so far
    lastAdd,          \* the last click on the add button: the map before and after
    lastEdit,         \* the last opening, close, move or cleanup: the map before and after
    lastCopy,         \* the last click on the add button that copied an icon
    rtPhase,          \* save and load back: "start", "saved", "editor", "popup"
    rtSaved,          \* the map that was saved
    rtLoaded,         \* the map that was loaded back
    lateCallback,     \* the last callback that ran while the extension was disabled
    lastLoad,         \* the last load of categories.jsonl: outcome, map before, map after
    reloadOwed,       \* a qualifying file event has not been followed by a reload yet
    refreshOwed,      \* an application-list event has not been followed by a refresh of allApps yet
    burstK,           \* events of the current burst of categories-file events
    burstTimer,       \* the timer armed by the last event of the burst
    burstReloads      \* reloads since the first event of the burst

fsVars == <<catFile, recFile>>
extVars == <<enabled, extCategories, recents, reloadTimeoutId, timers, nextSourceId, clock>>
timerVars == <<reloadTimeoutId, timers, nextSourceId>>
idleVars == <<idleSources, menuItemSearch, lateCallback>>
iconDirs == <<iconCategoriesDir, iconAppsDir>>
edIconVars == <<allIconCategories, allIconApps, widgetIconPath, rowIconPath>>
extIconVars == <<extAllIconCategories, extAllIconApps>>
appListVars == <<allApps, refreshOwed>>
menuVars == <<searchItemLive, focusedCategory, appsMenu, focusedApp, isInAppsColumn, searchText>>
edVars == <<edOpen, categories, categoryEntryText, selectedRow, addButtonLabel,
           addButtonSensitive, appsListSensitive, selectionRank, selectedApps,
           allAppsActive, searchAppActive>>
obsEditor == <<nClicks, lastAdd, lastEdit>>
obsRoundTrip == <<rtPhase, rtSaved, rtLoaded>>
obsRecents == <<nFresh, nRebumps, bumpSeq, fileLines>>
\* what the popup neither reads nor writes
editorSide == <<installed, edVars, obsEditor, obsRoundTrip, iconDirs, edIconVars, lastCopy>>
obsWatch == <<nEvents, reloadOwed, burstK, burstTimer, burstReloads>>
obsLoad == <<nEdits, lastLoad>>
\* what the preferences window neither reads nor writes
popupSide == <<recFile, extVars, idleVars, extIconVars, monitorSeen, obsRecents, obsWatch,
               obsLoad, appListVars, menuVars>>
vars == <<catFile, popupSide, editorSide>>

\* enable(): categoriesFilePath and recentsFilePath, in filesDir
categoriesFilePath == "categories.jsonl"
recentsFilePathOfCategories == "categories.jsonl"
recentsFilePath == "recents.jsonl"

\* file.load_contents of the file at path
ReadFile(path) == IF path = categoriesFilePath THEN catFile ELSE recFile

\* GLib.file_set_contents(path, data): the file at path is replaced
FileSetContents(path, file) ==
    /\ catFile' = IF path = categoriesFilePath THEN file ELSE catFile
    /\ recFile' = IF path = categoriesFilePath THEN recFile ELSE file

\* what a monitor of all of filesDir would watch
WatchedInFilesDir == <<catFile, recFile>>
\* categoriesFile.monitor_file(...): the monitor watches categories.jsonl
WatchedByCategoriesMonitor == <<catFile>>
\* no monitor
NoMonitor == <<>>

NoLoad == [outcome |-> "none", before |-> <<>>, after |-> <<>>]
NoAdd == [clicked |-> FALSE, before |-> <<>>, after |-> <<>>, isUpdate |-> FALSE,
          oldName |-> <<>>, newName |-> <<>>]
NoEdit == [op |-> "none", name |-> <<>>, delta |-> 0, before |-> <<>>, after |-> <<>>,
           wrote |-> FALSE, at |-> 0]
\* no row of categoriesListBox is selected
NoRow == <<>>
\* the image buttons of the preferences window
IconWidgets == {"category_icon", "all_apps_icon", "search_app_icon"}
\* the image button of a special category
SpecialIcon(categoryName) ==
    IF categoryName = ALL_APPS_CAT_NAME THEN "all_apps_icon" ELSE "search_app_icon"
\* a Map without entries
EmptyIndex == <<>>
NoCopy == [failed |-> FALSE, at |-> 0, name |-> <<>>, mapBefore |-> <<>>,
           fileBefore |-> NoFile, dirBefore |-> {}, indexBefore |-> EmptyIndex]
\* icon directories without files
NoIcons ==
    /\ iconCategoriesDir = {}
    /\ iconAppsDir = {}

(***************************************************************************)
(* extension.js: the widgets of the popup.  A stored reference to a widget *)
(* is null (set = FALSE), or refers to a widget that is a child of its box *)
(* (live) or to one that destroy_all_children has destroyed.               *)
(***************************************************************************)
RECENTS_CAT == <<"R", "e", "c", "e", "n", "t", " ", "a", "p", "p", "s">>

NoItem == [set |-> FALSE, live |-> FALSE, item |-> <<>>]
\* a child of categoriesMenu, named by its category
CategoryItem(name) == [set |-> TRUE, live |-> TRUE, item |-> name]
\* the child of appsMenu at position pos
AppItemAt(pos) == [set |-> TRUE, live |-> TRUE, item |-> pos]
\* the reference after the widget it refers to was destroyed
Destroyed(ref) == IF ref.set THEN [ref EXCEPT !.live = FALSE] ELSE ref

\* the popup before _init and after myPopup = null
NoPopup ==
    /\ searchItemLive = FALSE
    /\ focusedCategory = NoItem
    /\ appsMenu = <<>>
    /\ focusedApp = NoItem
    /\ isInAppsColumn = FALSE
    /\ searchText = <<>>

\* String.prototype.toLowerCase and trim on the search text
LowerChar(c) ==
    CASE c = "A" -> "a"
      [] c = "B" -> "b"
      [] OTHER -> c
LowerCase(s) == [i \in DOMAIN s |-> LowerChar(s[i])]
RECURSIVE Trim(_)
Trim(s) ==
    IF s = <<>> THEN s
    ELSE IF Head(s) = " " THEN Trim(Tail(s))
    ELSE IF s[Len(s)] = " " THEN Trim(SubSeq(s, 1, Len(s) - 1))
    ELSE s
\* String.prototype.includes
Includes(s, sub) ==
    \E i \in 1..(Len(s) - Len(sub) + 1) : SubSeq(s, i, i + Len(sub) - 1) = sub

\* category.apps.forEach(app => createAppItem(app)): the items of the
\* applications that are installed and shown
createAppItems(apps, shown) ==
    LET valid == SelectSeq(apps, LAMBDA app : DesktopIdOf(app.id) \in shown)
    IN  [i \in DOMAIN valid |-> [kind |-> "app", id |-> valid[i].id]]

\* the 'text-changed' handler: the items of the applications of allApps that
\* are shown and whose display name includes the search text
SearchedAppItems(all, shown, text) ==
    LET searchText0 == LowerCase(Trim(text))
        matching == SelectSeq(all, LAMBDA id :
                        id \in shown /\ Includes(LowerCase(DisplayName(id)), searchText0))
    IN  [i \in DOMAIN matching |-> [kind |-> "searched", id |-> matching[i]]]

\* the recents 'enter-event' handler: the items of the recent applications
\* that are installed and shown, or the label 'No recent apps yet'
RecentItems(list, shown) ==
    LET valid == SelectSeq(list, LAMBDA recent : RecentId(recent) \in shown)
    IN  IF valid = <<>> THEN <<[kind |-> "label", id |-> <<>>]>>
        ELSE [i \in DOMAIN valid |-> [kind |-> "searched", id |-> RecentId(valid[i])]]

\* Gio.AppInfo.get_all()
AppInfoGetAll(shown) == SelectSeq(AppRowOrder, LAMBDA id : id \in shown)

\* the children of categoriesMenu that _populateCategoriesMenu,
\* createRecentsCategoryItem and _setupSearchEntry add for a map
MenuItems(map) ==
    populateCategoriesMenu(map)
    \o (IF MapHas(map, ALL_APPS_CAT_NAME) THEN <<ALL_APPS_CAT_NAME>> ELSE <<>>)
    \o <<RECENTS_CAT>>
    \o (IF MapHas(map, SEARCH_APP_CAT_NAME) THEN <<SEARCH_APP_CAT_NAME>> ELSE <<>>)

\* the apps column with the reference to the focused item and the search
\* text, as the handlers change them one statement after the other
AppsColumn == [appsMenu |-> appsMenu, focusedApp |-> focusedApp, searchText |-> searchText]
\* appsMenu.destroy_all_children()
destroyAllChildren(col) ==
    [col EXCEPT !.appsMenu = <<>>, !.focusedApp = Destroyed(col.focusedApp)]
\* the 'text-changed' handler of the search entry
textChanged(col, all, shown) ==
    [destroyAllChildren(col) EXCEPT !.appsMenu = SearchedAppItems(all, shown, col.searchText)]
\* clutter_text.set_text(text): 'text-changed' is emitted when the text changes
setText(col, text, all, shown) ==
    IF col.searchText = text THEN col
    ELSE textChanged([col EXCEPT !.searchText = text], all, shown)
\* myPopup.menuItemSearch?.searchEntry.clutter_text.set_text(''): nothing
\* without a search item, and nothing on an entry that was destroyed
clearSearch(col, hasSearch, live, all, shown) ==
    IF hasSearch /\ live THEN setText(col, <<>>, all, shown) ELSE col
\* the module state of prefs.js before fillPreferencesWindow
InitEditor ==
    /\ edOpen = FALSE
    /\ categories = <<>>
    /\ categoryEntryText = <<>>
    /\ selectedRow = NoRow
    /\ addButtonLabel = "Add Category"
    /\ addButtonSensitive = FALSE
    /\ appsListSensitive = FALSE
    /\ selectionRank = [id \in AppIds |-> 0]
    /\ selectedApps = {}
    /\ allAppsActive = FALSE
    /\ searchAppActive = FALSE
    /\ allIconCategories = EmptyIndex
    /\ allIconApps = EmptyIndex
    /\ widgetIconPath = [w \in IconWidgets |-> NoPath]
    /\ rowIconPath = [id \in AppIds |-> NoPath]

InitExtension ==
    /\ enabled = FALSE
    /\ extCategories = <<>>
    /\ recents = <<>>
    /\ reloadTimeoutId = 0
    /\ timers = {}
    /\ nextSourceId = 1
    /\ clock = 1
    /\ idleSources = {}
    /\ menuItemSearch = FALSE
    /\ extAllIconCategories = EmptyIndex
    /\ extAllIconApps = EmptyIndex
    /\ monitorSeen = NoMonitor
    /\ allApps = <<>>
    /\ NoPopup

InitObservers ==
    /\ nEvents = 0
    /\ nEdits = 0
    /\ nFresh = 0
    /\ nRebumps = 0
    /\ bumpSeq = <<>>
    /\ nClicks = 0
    /\ lastAdd = NoAdd
    /\ lastEdit = NoEdit
    /\ lastCopy = NoCopy
    /\ lateCallback = "none"
    /\ rtPhase = "start"
    /\ rtLoaded = <<>>
    /\ lastLoad = NoLoad
    /\ reloadOwed = FALSE
    /\ refreshOwed = FALSE
    /\ burstK = 0
    /\ burstTimer = 0
    /\ burstReloads = 0

(***************************************************************************)
(* GLib timeout sources                                                    *)
(***************************************************************************)
TimerIds(ts) == {t.id : t \in ts}

\* GLib.source_remove(id)
SourceRemoveNoop(ts, id) == ts
SourceRemove(ts, id) == {t \in ts : t.id # id}

\* the end of the three timer callbacks: reloadTimeoutId = 0; return
\* GLib.SOURCE_REMOVE
IdAfterCallbackKept(id) == id
IdAfterCallback(id) == 0

\* if (reloadTimeoutId) GLib.source_remove(reloadTimeoutId);
\* reloadTimeoutId = GLib.timeout_add(..., callback)
Rearm(kind) ==
    /\ timers' = (IF reloadTimeoutId # 0 THEN SourceRemove(timers, reloadTimeoutId)
                  ELSE timers)
                 \cup {[id |-> nextSourceId, kind |-> kind]}
    /\ reloadTimeoutId' = nextSourceId
    /\ nextSourceId' = nextSourceId + 1

(***************************************************************************)
(* extension.js: enable, disable and the handlers                          *)
(***************************************************************************)
Enable ==
    /\ ~enabled
    /\ enabled' = TRUE
    /\ LET r == loadCategoriesFromDisk(extCategories, catFile) IN
        /\ extCategories' = r.map
        /\ lastLoad' = [outcome |-> r.outcome, before |-> extCategories, after |-> r.map]
    /\ recents' = loadRecentsFromDisk(ReadFile(recentsFilePath))
    \* setupCategoriesFileWatcher: the monitor starts from the file as it is
    /\ monitorSeen' = WatchedByCategoriesMonitor
    /\ menuItemSearch' = MapHas(extCategories', SEARCH_APP_CAT_NAME)
    /\ extAllIconCategories' \in getAllIcons(iconCategoriesDir)
    /\ extAllIconApps' \in getAllIcons(iconAppsDir)
    /\ allApps' = AppInfoGetAll(installed)
    /\ refreshOwed' = FALSE
    \* new MyPopup(): _populateCategoriesMenu, _setupSearchEntry, _setupMenuBehavior
    /\ searchItemLive' = MapHas(extCategories', SEARCH_APP_CAT_NAME)
    /\ focusedCategory' = NoItem
    /\ appsMenu' = <<>>
    /\ focusedApp' = NoItem
    /\ isInAppsColumn' = FALSE
    /\ searchText' = <<>>
    /\ UNCHANGED <<fsVars, timerVars, clock, obsRecents, obsWatch, nEdits,
                   idleSources, lateCallback, editorSide>>

Disable ==
    /\ enabled
    /\ enabled' = FALSE
    /\ IF reloadTimeoutId # 0
       THEN /\ timers' = SourceRemove(timers, reloadTimeoutId)
            /\ reloadTimeoutId' = 0
       ELSE UNCHANGED <<timers, reloadTimeoutId>>
    /\ extCategories' = <<>>
    /\ recents' = <<>>
    /\ menuItemSearch' = FALSE
    /\ monitorSeen' = NoMonitor
    /\ extAllIconCategories' = EmptyIndex
    /\ extAllIconApps' = EmptyIndex
    /\ reloadOwed' = FALSE
    /\ burstK' = 0
    /\ allApps' = <<>>
    /\ refreshOwed' = FALSE
    \* myPopup.destroy(); myPopup = null
    /\ searchItemLive' = FALSE
    /\ focusedCategory' = NoItem
    /\ appsMenu' = <<>>
    /\ focusedApp' = NoItem
    /\ isInAppsColumn' = FALSE
    /\ searchText' = <<>>
    /\ UNCHANGED <<fsVars, nextSourceId, clock, obsRecents, obsLoad, editorSide,
                   nEvents, burstTimer, burstReloads, idleSources, lateCallback>>

\* the 'changed' handler of the categories-file monitor
CategoriesFileChanged(eventType) ==
    /\ enabled
    /\ nEvents < MaxEvents
    /\ nEvents' = nEvents + 1
    /\ IF eventType \in {"CHANGES_DONE_HINT", "CREATED"}
       THEN /\ Rearm("categories")
            /\ reloadOwed' = TRUE
            /\ IF burstK >= 1 /\ burstTimer \in TimerIds(timers)
               THEN /\ burstK' = burstK + 1
                    /\ UNCHANGED burstReloads
               ELSE /\ burstK' = 1
                    /\ burstReloads' = 0
            /\ burstTimer' = nextSourceId
       ELSE UNCHANGED <<timerVars, reloadOwed, burstK, burstTimer, burstReloads>>
    \* the monitor has reported the file as it is now
    /\ monitorSeen' = WatchedByCategoriesMonitor
    /\ UNCHANGED <<fsVars, enabled, extCategories, recents, clock, obsRecents, obsLoad,
                   idleVars, extIconVars, editorSide, appListVars, menuVars>>

\* what the monitor watches is no longer what it last saw: it emits
\* CHANGES_DONE_HINT and the 'changed' handler runs
FileEventDelivered ==
    /\ monitorSeen # NoMonitor
    /\ WatchedByCategoriesMonitor # monitorSeen
    /\ CategoriesFileChanged("CHANGES_DONE_HINT")

\* the 'installed-changed' handler of Shell.AppSystem
InstalledChanged ==
    /\ enabled
    /\ nEvents < MaxEvents
    /\ nEvents' = nEvents + 1
    /\ Rearm("apps")
    /\ burstK' = 0
    /\ refreshOwed' = TRUE
    /\ UNCHANGED <<fsVars, enabled, extCategories, recents, clock, obsRecents, obsLoad,
                   idleVars, extIconVars, monitorSeen, editorSide, reloadOwed, burstTimer,
                   burstReloads, allApps, menuVars>>

\* the 'changed' handler of an application-directory monitor
AppDirChanged ==
    /\ enabled
    /\ nEvents < MaxEvents
    /\ nEvents' = nEvents + 1
    /\ Rearm("apps")
    /\ burstK' = 0
    /\ refreshOwed' = TRUE
    /\ UNCHANGED <<fsVars, enabled, extCategories, recents, clock, obsRecents, obsLoad,
                   idleVars, extIconVars, monitorSeen, editorSide, reloadOwed, burstTimer,
                   burstReloads, allApps, menuVars>>

\* a timeout source expires and its callback runs (it returns SOURCE_REMOVE)
TimerFire(t) ==
    /\ t \in timers
    /\ timers' = timers \ {t}
    /\ reloadTimeoutId' = IdAfterCallback(reloadTimeoutId)
    /\ IF t.kind = "categories"
       THEN /\ LET r == loadCategoriesFromDisk(extCategories, catFile) IN
                /\ extCategories' = r.map
                /\ lastLoad' = [outcome |-> r.outcome, before |-> extCategories,
                                after |-> r.map]
            /\ extAllIconCategories' \in getAllIcons(iconCategoriesDir)
            /\ extAllIconApps' \in getAllIcons(iconAppsDir)
            \* rebuildCategoriesMenu: categoriesMenu.destroy_all_children(), then
            \* the items are created again; _setupSearchEntry returns at once
            \* without the 'Search app' category
            /\ menuItemSearch' = (menuItemSearch \/ MapHas(extCategories', SEARCH_APP_CAT_NAME))
            /\ searchItemLive' = MapHas(extCategories', SEARCH_APP_CAT_NAME)
            /\ focusedCategory' = Destroyed(focusedCategory)
            /\ searchText' = IF MapHas(extCategories', SEARCH_APP_CAT_NAME) THEN <<>>
                              ELSE searchText
            /\ reloadOwed' = FALSE
            /\ burstReloads' = burstReloads + 1
            /\ UNCHANGED <<appsMenu, focusedApp, isInAppsColumn, appListVars>>
       ELSE /\ allApps' = AppInfoGetAll(installed)
            /\ refreshOwed' = FALSE
            /\ UNCHANGED <<extCategories, lastLoad, reloadOwed, burstReloads, menuItemSearch,
                           extIconVars, menuVars>>
    /\ lateCallback' = IF enabled THEN lateCallback ELSE t.kind
    /\ UNCHANGED <<fsVars, enabled, recents, nextSourceId, clock, obsRecents, editorSide,
                   nEvents, nEdits, burstK, burstTimer, idleSources, monitorSeen>>

TimerFires == \E t \in timers : TimerFire(t)

\* the 'activate' handler of an application item: bumpRecent(desktopId), which
\* returns before reading the clock and saving when it ignores the id
Activate(desktopId) ==
    /\ enabled
    /\ recents' = bumpRecent(recents, desktopId, clock)
    /\ IF Ignored(desktopId)
       THEN UNCHANGED <<catFile, recFile, clock>>
       ELSE /\ FileSetContents(recentsFilePath, saveRecentsToDisk(recents'))
            /\ clock' = clock + 1
    /\ UNCHANGED <<enabled, extCategories, timerVars, obsWatch, obsLoad,
                   idleVars, extIconVars, monitorSeen, fileLines, editorSide,
                   appListVars, menuVars>>

\* an application never launched before is launched
ActivateFresh ==
    /\ nFresh < MaxFresh
    /\ nFresh' = nFresh + 1
    /\ bumpSeq' = Append(bumpSeq, clock)
    /\ UNCHANGED nRebumps
    /\ Activate(RecentAppId(nFresh + 1))

\* an application launched before is launched again
ActivateAgain ==
    /\ nRebumps < MaxRebumps
    /\ nRebumps' = nRebumps + 1
    /\ UNCHANGED nFresh
    /\ \E n \in Relaunched \cap (1..nFresh) :
        /\ bumpSeq' = [bumpSeq EXCEPT ![n] = clock]
        /\ Activate(RecentAppId(n))

\* bumpRecent is called with an id that does not end in ".desktop"
ActivateBare ==
    /\ Activate(BareId)
    /\ UNCHANGED <<nFresh, nRebumps, bumpSeq>>

\* GLib.idle_add(GLib.PRIORITY_DEFAULT_IDLE, callback): the id is not kept
IdleAdd(kind) ==
    /\ idleSources' = idleSources \cup {[id |-> nextSourceId, kind |-> kind]}
    /\ nextSourceId' = nextSourceId + 1

\* the 'open-state-changed' handler of the menu with isOpen: the apps column
\* is emptied and the focus reset; with a search item the search text is
\* cleared and searchEntry.grab_key_focus() scheduled.  When menuItemSearch
\* refers to a destroyed item the handler may throw on it before it
\* schedules the callback.
MenuOpened ==
    /\ enabled
    /\ nEvents < MaxEvents
    /\ nEvents' = nEvents + 1
    /\ isInAppsColumn' = FALSE
    /\ LET emptied == [destroyAllChildren(AppsColumn) EXCEPT !.focusedApp = NoItem]
           cleared == clearSearch(emptied, menuItemSearch, searchItemLive, allApps, installed)
       IN  /\ appsMenu' = cleared.appsMenu
           /\ focusedApp' = cleared.focusedApp
           /\ searchText' = cleared.searchText
    /\ IF menuItemSearch /\ searchItemLive
       THEN IdleAdd("grab_key_focus")
       ELSE IF menuItemSearch
       THEN \/ IdleAdd("grab_key_focus")
            \/ UNCHANGED <<idleSources, nextSourceId>>
       ELSE UNCHANGED <<idleSources, nextSourceId>>
    /\ UNCHANGED <<fsVars, enabled, extCategories, recents, reloadTimeoutId, timers, clock,
                   menuItemSearch, lateCallback, extIconVars, monitorSeen, obsRecents, obsLoad,
                   editorSide, reloadOwed, burstK, burstTimer, burstReloads>>
    /\ UNCHANGED <<appListVars, searchItemLive, focusedCategory>>

\* the 'activate' handler of the "Show all applications" item: it closes the
\* menu, shows the overview and schedules showApps()
AllAppsActivated ==
    /\ enabled
    /\ MapHas(extCategories, ALL_APPS_CAT_NAME)
    /\ nEvents < MaxEvents
    /\ nEvents' = nEvents + 1
    /\ IdleAdd("showApps")
    /\ UNCHANGED <<fsVars, enabled, extCategories, recents, reloadTimeoutId, timers, clock,
                   menuItemSearch, lateCallback, extIconVars, monitorSeen, obsRecents, obsLoad,
                   editorSide, reloadOwed, burstK, burstTimer, burstReloads>>
    /\ UNCHANGED <<appListVars, menuVars>>

\* the main loop is idle and the callback of an idle source runs (it returns
\* SOURCE_REMOVE)
IdleRun(source) ==
    /\ source \in idleSources
    /\ idleSources' = idleSources \ {source}
    /\ lateCallback' = IF enabled THEN lateCallback ELSE source.kind
    /\ UNCHANGED <<fsVars, extVars, menuItemSearch, extIconVars, monitorSeen, obsRecents, obsWatch,
                   obsLoad, editorSide, appListVars, menuVars>>

IdleRuns == \E source \in idleSources : IdleRun(source)

\* what the handlers of the menu items and of the keys leave alone
menuFrame == <<fsVars, extVars, idleVars, extIconVars, monitorSeen, obsRecents, obsWatch,
               obsLoad, editorSide, appListVars, searchItemLive>>

\* the 'enter-event' handlers of the child item of categoriesMenu: the search
\* item takes the focus; the recents item and a category item fill the apps
\* column, take the focus and clear the search text; the item of 'All apps'
\* has a second handler that empties the apps column
EnterEvent(item) ==
    IF item = SEARCH_APP_CAT_NAME
    THEN /\ focusedCategory' = CategoryItem(item)
         /\ UNCHANGED <<appsMenu, focusedApp, searchText>>
    ELSE LET filled == [destroyAllChildren(AppsColumn) EXCEPT !.appsMenu =
                            IF item = RECENTS_CAT THEN RecentItems(recents, installed)
                            ELSE createAppItems(MapGet(extCategories, item).apps, installed)]
             cleared == clearSearch(filled, menuItemSearch, searchItemLive, allApps, installed)
             final == IF item = ALL_APPS_CAT_NAME THEN destroyAllChildren(cleared) ELSE cleared
         IN  /\ focusedCategory' = CategoryItem(item)
             /\ appsMenu' = final.appsMenu
             /\ focusedApp' = final.focusedApp
             /\ searchText' = final.searchText

\* the pointer enters an item of the categories column
MouseEnter(item) ==
    /\ enabled
    /\ item \in Range(MenuItems(extCategories))
    /\ EnterEvent(item)
    /\ UNCHANGED <<menuFrame, isInAppsColumn>>

\* the user edits the text of the search entry: 'text-changed'
SearchTyped(text) ==
    /\ enabled
    /\ menuItemSearch
    /\ searchItemLive
    /\ text # searchText
    /\ LET col == setText(AppsColumn, text, allApps, installed) IN
        /\ appsMenu' = col.appsMenu
        /\ focusedApp' = col.focusedApp
        /\ searchText' = col.searchText
    /\ UNCHANGED <<menuFrame, focusedCategory, isInAppsColumn>>

\* key Right: _navigateToApps
NavigateToApps ==
    /\ enabled
    /\ ~isInAppsColumn
    /\ appsMenu # <<>>
    /\ isInAppsColumn' = TRUE
    /\ focusedApp' = AppItemAt(1)
    /\ UNCHANGED <<menuFrame, focusedCategory, appsMenu, searchText>>

\* key Left: _navigateToCategories
NavigateToCategories ==
    /\ enabled
    /\ isInAppsColumn
    /\ isInAppsColumn' = FALSE
    /\ focusedApp' = NoItem
    /\ UNCHANGED <<menuFrame, focusedCategory, appsMenu, searchText>>

\* children.indexOf(focused) + direction, wrapped around; -1 for a reference
\* that is null or refers to no child
NewIndex(index, direction, length) ==
    LET newIndex == index + direction IN
    IF newIndex < 0 THEN length - 1
    ELSE IF newIndex >= length THEN 0
    ELSE newIndex

\* keys Up and Down: _navigateVertical(direction)
NavigateVertical(direction) ==
    /\ enabled
    /\ IF isInAppsColumn
       THEN /\ appsMenu # <<>>
            /\ LET currentIndex == IF focusedApp.set /\ focusedApp.live
                                   THEN focusedApp.item - 1 ELSE -1
               IN  focusedApp' = AppItemAt(NewIndex(currentIndex, direction, Len(appsMenu)) + 1)
            /\ UNCHANGED <<focusedCategory, appsMenu, searchText>>
       ELSE LET children == MenuItems(extCategories)
                currentIndex == IF focusedCategory.set /\ focusedCategory.live
                                THEN IndexOf(children, focusedCategory.item) - 1 ELSE -1
            IN  EnterEvent(children[NewIndex(currentIndex, direction, Len(children)) + 1])
    /\ UNCHANGED <<menuFrame, isInAppsColumn>>

\* categories.jsonl is written or deleted by another process
ExternalEditTo(file) ==
    /\ nEdits < MaxEdits
    /\ nEdits' = nEdits + 1
    /\ file # catFile
    /\ catFile' = file
    /\ UNCHANGED <<recFile, extVars, idleVars, extIconVars, monitorSeen, obsRecents, obsWatch,
                   lastLoad, editorSide, appListVars, menuVars>>

ExternalEdit == \E file \in ExternalFiles \cup {NoFile} : ExternalEditTo(file)

(***************************************************************************)
(* prefs.js: fillPreferencesWindow and the handlers of buildPrefsWidget     *)
(***************************************************************************)
\* handleCheckboxToggle with the checkbox active: categories.set(...)
SpecialCategory(categoryName) == Category(categoryName, NullRank, <<>>)

\* allAppsCheckbox.active = categories.has(...): 'toggled' runs the handler
\* when the checkbox becomes active
AfterInitialCheck(map, categoryName) ==
    IF MapHas(map, categoryName) THEN MapSet(map, SpecialCategory(categoryName)) ELSE map

\* loadCategories, cleanupCategories (saved when it changed something),
\* buildPrefsWidget with the initial state of the two checkboxes
FillPreferencesWindow ==
    /\ ~edOpen
    /\ edOpen' = TRUE
    /\ \E loaded \in {loadCategories(categories, catFile).map} :
       \E cleaned \in {cleanupCategories(loaded, installed)} :
       \E withAll \in {AfterInitialCheck(cleaned.map, ALL_APPS_CAT_NAME)} :
       \E withSearch \in {AfterInitialCheck(withAll, SEARCH_APP_CAT_NAME)} :
       LET hasAll == MapHas(cleaned.map, ALL_APPS_CAT_NAME)
           hasSearch == MapHas(withAll, SEARCH_APP_CAT_NAME)
       IN  /\ categories' = withSearch
           /\ allAppsActive' = hasAll
           /\ searchAppActive' = hasSearch
           /\ catFile' = IF cleaned.changesMade \/ hasAll \/ hasSearch
                         THEN saveCategoriesToFile(withSearch)
                         ELSE catFile
           /\ lastEdit' = [op |-> "open", name |-> <<>>, delta |-> 0,
                           before |-> loaded, after |-> withSearch,
                           wrote |-> cleaned.changesMade \/ hasAll \/ hasSearch,
                           at |-> nClicks]
    /\ UNCHANGED <<categoryEntryText, selectedRow, addButtonLabel, addButtonSensitive,
                   appsListSensitive, selectionRank, selectedApps>>
    /\ UNCHANGED <<popupSide, installed, nClicks, lastAdd, obsRoundTrip>>
    /\ allIconCategories' \in getAllIcons(iconCategoriesDir)
    /\ allIconApps' \in getAllIcons(iconAppsDir)
    /\ UNCHANGED <<iconDirs, widgetIconPath, rowIconPath, lastCopy>>

\* categoryEntry 'changed' after the user edited the text
TypeName(text) ==
    /\ edOpen
    /\ nClicks < MaxClicks
    /\ text # categoryEntryText
    /\ nClicks' = nClicks + 1
    /\ categoryEntryText' = text
    /\ LET hasText == text # <<>> IN
        /\ appsListSensitive' = hasText
        /\ addButtonSensitive' = (hasText /\ selectedApps # {})
        /\ selectedApps' = IF hasText THEN selectedApps ELSE {}
        /\ selectionRank' = IF hasText THEN selectionRank
                            ELSE [id \in AppIds |->
                                    IF id \in selectedApps THEN 0 ELSE selectionRank[id]]
    /\ UNCHANGED <<catFile, edOpen, categories, selectedRow, addButtonLabel,
                   allAppsActive, searchAppActive, lastAdd, lastEdit>>
    /\ UNCHANGED <<popupSide, installed, obsRoundTrip>>
    /\ UNCHANGED <<iconDirs, edIconVars, lastCopy>>

\* a click on a row of appsListBox: the list box selects the row, then
\* 'row-activated' runs
ClickAppRow(id) ==
    /\ edOpen
    /\ nClicks < MaxClicks
    /\ appsListSensitive
    /\ id \in installed
    /\ nClicks' = nClicks + 1
    /\ LET selectedRows == selectedApps \cup {id}
           selectedCount == Cardinality(selectedRows)
           rowRank == selectionRank[id]
       IN  IF rowRank = 0
           THEN /\ selectionRank' = [selectionRank EXCEPT ![id] = selectedCount]
                /\ selectedApps' = selectedRows
                /\ addButtonSensitive' = (selectedCount > 0)
           ELSE /\ selectionRank' =
                       [sr \in AppIds |->
                           IF sr = id THEN 0
                           ELSE IF sr \in selectedRows /\ selectionRank[sr] > rowRank
                           THEN selectionRank[sr] - 1
                           ELSE selectionRank[sr]]
                /\ selectedApps' = selectedRows \ {id}
                /\ addButtonSensitive' = (selectedCount - 1 > 0)
    /\ UNCHANGED <<catFile, edOpen, categories, categoryEntryText, selectedRow,
                   addButtonLabel, appsListSensitive, allAppsActive, searchAppActive,
                   lastAdd, lastEdit>>
    /\ UNCHANGED <<popupSide, installed, obsRoundTrip>>
    /\ UNCHANGED <<iconDirs, edIconVars, lastCopy>>

\* a click on a row of categoriesListBox: the list box selects the row, then
\* 'row-activated' runs
ClickCategoryRow(name) ==
    /\ edOpen
    /\ nClicks < MaxClicks
    /\ name \in Range(ListRows(categories))
    /\ nClicks' = nClicks + 1
    /\ LET category == MapGet(categories, name) IN
       IF category.name = categoryEntryText
       THEN /\ categoryEntryText' = <<>>
            /\ appsListSensitive' = FALSE
            /\ selectedApps' = {}
            /\ selectionRank' = [id \in AppIds |->
                                    IF id \in selectedApps THEN 0 ELSE selectionRank[id]]
            /\ selectedRow' = NoRow
            /\ addButtonLabel' = "Add Category"
            /\ addButtonSensitive' = FALSE
            /\ widgetIconPath' = [widgetIconPath EXCEPT !["category_icon"] = NoPath]
       ELSE LET found == {i \in DOMAIN category.apps : category.apps[i].id \in installed}
                \* the last entry of an id sets the rank of its row
                RankOf(id) == category.apps[Max({i \in found : category.apps[i].id = id})].rank
                ids == {category.apps[i].id : i \in found}
            IN  /\ categoryEntryText' = category.name
                /\ appsListSensitive' = TRUE
                /\ selectionRank' = [id \in AppIds |->
                                        IF id \in ids THEN RankOf(id) ELSE selectionRank[id]]
                /\ selectedApps' = selectedApps \cup ids
                /\ selectedRow' = name
                /\ addButtonLabel' = "Update Category"
                /\ addButtonSensitive' = TRUE
                \* categoryIcon.path is reset only when the category has no icon
                /\ widgetIconPath' = IF category.name \in DOMAIN allIconCategories
                                     THEN widgetIconPath
                                     ELSE [widgetIconPath EXCEPT !["category_icon"] = NoPath]
    /\ UNCHANGED <<catFile, edOpen, categories, allAppsActive, searchAppActive, lastAdd,
                   lastEdit>>
    /\ UNCHANGED <<popupSide, installed, obsRoundTrip>>
    /\ UNCHANGED <<iconDirs, allIconCategories, allIconApps, rowIconPath, lastCopy>>

\* addButton 'clicked'
ClickAdd ==
    /\ edOpen
    /\ nClicks < MaxClicks
    /\ addButtonSensitive
    /\ nClicks' = nClicks + 1
    /\ LET rows == SelectSeq(AppRowOrder, LAMBDA id : id \in selectedApps)
           apps == SortByRank([i \in DOMAIN rows |->
                            AppEntry(rows[i], DisplayName(rows[i]), selectionRank[rows[i]])])
           isUpdate == addButtonLabel = "Update Category" /\ selectedRow # NoRow
           oldCategoryName == IF isUpdate THEN selectedRow ELSE <<>>
           newCategory == Category(categoryEntryText,
                                   rankForAdd(categories, isUpdate, oldCategoryName), apps)
           after == mapAfterAdd(categories, isUpdate, oldCategoryName, newCategory)
           appIcons == copyRowIcons([dir |-> iconAppsDir, index |-> allIconApps],
                                    rows, rowIconPath)
           path == widgetIconPath["category_icon"]
           categoryIcons == categoryIconAfterAdd(
                                [dir |-> iconCategoriesDir, index |-> allIconCategories],
                                path, isUpdate, oldCategoryName, newCategory.name)
           \* a copy was asked for; whether it threw
           copies == {rowIconPath[id] : id \in selectedApps} \cup {path}
           migrates == /\ path = NoPath
                       /\ isUpdate
                       /\ oldCategoryName # newCategory.name
                       /\ oldCategoryName \in DOMAIN allIconCategories
           migrationThrew ==
               migrates /\ IconFile(oldCategoryName, allIconCategories[oldCategoryName])
                              \notin iconCategoriesDir
       IN  /\ iconAppsDir' = appIcons.dir
           /\ allIconApps' = appIcons.index
           /\ iconCategoriesDir' = categoryIcons.dir
           /\ allIconCategories' = categoryIcons.index
           /\ rowIconPath' = [id \in AppIds |->
                                IF id \in selectedApps THEN NoPath ELSE rowIconPath[id]]
           /\ widgetIconPath' = [widgetIconPath EXCEPT !["category_icon"] = NoPath]
           /\ lastCopy' = IF copies # {NoPath} \/ migrates
                          THEN [failed |-> migrationThrew
                                           \/ \E c \in copies \ {NoPath} : ~c.readable,
                                at |-> nClicks + 1,
                                name |-> newCategory.name,
                                mapBefore |-> categories,
                                fileBefore |-> catFile,
                                dirBefore |-> iconCategoriesDir,
                                indexBefore |-> allIconCategories]
                          ELSE lastCopy
           /\ categories' = after
           /\ catFile' = saveCategoriesToFile(after)
           /\ lastAdd' = [clicked |-> TRUE, before |-> categories, after |-> after,
                          isUpdate |-> isUpdate, oldName |-> oldCategoryName,
                          newName |-> newCategory.name]
    \* categoryEntry.set_text('') and its 'changed' handler, refreshCategoriesListBox
    /\ categoryEntryText' = <<>>
    /\ appsListSensitive' = FALSE
    /\ addButtonSensitive' = FALSE
    /\ selectedApps' = {}
    /\ selectionRank' = [id \in AppIds |->
                            IF id \in selectedApps THEN 0 ELSE selectionRank[id]]
    /\ selectedRow' = NoRow
    /\ UNCHANGED <<edOpen, addButtonLabel, allAppsActive, searchAppActive, lastEdit>>
    /\ UNCHANGED <<popupSide, installed, obsRoundTrip>>

\* the close button of the row of a category
ClickClose(name) ==
    /\ edOpen
    /\ nClicks < MaxClicks
    /\ name \in Range(ListRows(categories))
    /\ nClicks' = nClicks + 1
    /\ categories' = closeCategory(categories, name)
    /\ catFile' = saveCategoriesToFile(categories')
    /\ lastEdit' = [op |-> "close", name |-> name, delta |-> 0, before |-> categories,
                    after |-> categories', wrote |-> TRUE, at |-> nClicks + 1]
    /\ selectedRow' = NoRow
    /\ categoryEntryText' = <<>>
    /\ addButtonLabel' = "Add Category"
    /\ addButtonSensitive' = FALSE
    /\ appsListSensitive' = FALSE
    /\ selectedApps' = {}
    /\ selectionRank' = [id \in AppIds |->
                            IF id \in selectedApps THEN 0 ELSE selectionRank[id]]
    /\ UNCHANGED <<edOpen, allAppsActive, searchAppActive, lastAdd>>
    /\ UNCHANGED <<popupSide, installed, obsRoundTrip>>
    /\ LET removed == removePicture([dir |-> iconCategoriesDir, index |-> allIconCategories],
                                    name)
       IN  /\ iconCategoriesDir' = removed.dir
           /\ allIconCategories' = removed.index
    /\ widgetIconPath' = [widgetIconPath EXCEPT !["category_icon"] = NoPath]
    /\ UNCHANGED <<iconAppsDir, allIconApps, rowIconPath, lastCopy>>

\* upButton / downButton 'clicked': moveSelectedCategory(delta), which does
\* nothing without a selected row and returns before saving unless the
\* category is ranked and has a ranked neighbour to swap with
MoveSelected(delta) ==
    /\ edOpen
    /\ nClicks < MaxClicks
    /\ selectedRow # NoRow
    /\ nClicks' = nClicks + 1
    /\ LET moved == moveSelectedCategory(categories, selectedRow, delta) IN
        /\ categories' = moved.map
        /\ catFile' = IF moved.saved THEN saveCategoriesToFile(moved.map) ELSE catFile
        /\ lastEdit' = [op |-> "move", name |-> selectedRow, delta |-> delta,
                        before |-> categories, after |-> moved.map,
                        wrote |-> moved.saved, at |-> nClicks + 1]
    /\ UNCHANGED <<edOpen, categoryEntryText, selectedRow, addButtonLabel,
                   addButtonSensitive, appsListSensitive, selectionRank, selectedApps,
                   allAppsActive, searchAppActive, lastAdd>>
    /\ UNCHANGED <<popupSide, installed, obsRoundTrip>>
    /\ UNCHANGED <<iconDirs, edIconVars, lastCopy>>

\* a click on the checkbox of a special category or on its label:
\* handleCheckboxToggle with the new state of the checkbox
ToggleSpecial(categoryName) ==
    /\ edOpen
    /\ nClicks < MaxClicks
    /\ nClicks' = nClicks + 1
    /\ LET active == IF categoryName = ALL_APPS_CAT_NAME THEN allAppsActive
                     ELSE searchAppActive
           after == IF ~active THEN MapSet(categories, SpecialCategory(categoryName))
                    ELSE MapDelete(categories, categoryName)
       IN  /\ categories' = after
           /\ catFile' = saveCategoriesToFile(after)
           /\ allAppsActive' = IF categoryName = ALL_APPS_CAT_NAME THEN ~active
                               ELSE allAppsActive
           /\ searchAppActive' = IF categoryName = SEARCH_APP_CAT_NAME THEN ~active
                                 ELSE searchAppActive
    \* refreshCategoriesListBox removes the rows, the selected one included
    /\ selectedRow' = NoRow
    /\ UNCHANGED <<edOpen, categoryEntryText, addButtonLabel, addButtonSensitive,
                   appsListSensitive, selectionRank, selectedApps, lastAdd, lastEdit>>
    /\ UNCHANGED <<popupSide, installed, obsRoundTrip>>
    \* a chosen icon is copied when the category is added; icon.path = '' when
    \* it is removed
    /\ LET icon == SpecialIcon(categoryName)
           path == widgetIconPath[icon]
           active == IF categoryName = ALL_APPS_CAT_NAME THEN allAppsActive
                     ELSE searchAppActive
           copied == IF ~active /\ path # NoPath
                     THEN copyRenameFile([dir |-> iconCategoriesDir,
                                          index |-> allIconCategories], categoryName, path)
                     ELSE [dir |-> iconCategoriesDir, index |-> allIconCategories]
       IN  /\ iconCategoriesDir' = copied.dir
           /\ allIconCategories' = copied.index
           /\ widgetIconPath' = [widgetIconPath EXCEPT
                                    ![icon] = IF active \/ path.readable THEN NoPath ELSE path]
    /\ UNCHANGED <<iconAppsDir, allIconApps, rowIconPath, lastCopy>>

\* selectImage for one of the image buttons: the file chooser is accepted
\* with a file whose extension is allowed
SelectImage(icon, path) ==
    /\ edOpen
    /\ nClicks < MaxClicks
    /\ toLowerCase(path.ext) \in ALLOWED_IMAGE_EXTENSIONS
    /\ nClicks' = nClicks + 1
    /\ widgetIconPath' = [widgetIconPath EXCEPT ![icon] = path]
    /\ UNCHANGED <<catFile, edVars, lastAdd, lastEdit, lastCopy, iconDirs,
                   allIconCategories, allIconApps, rowIconPath>>
    /\ UNCHANGED <<popupSide, installed, obsRoundTrip>>

\* showEditApplicationDialog, '_Save' after an image was chosen for the
\* application and the name left as it was
EditApplicationSave(id, path) ==
    /\ edOpen
    /\ nClicks < MaxClicks
    /\ appsListSensitive
    /\ id \in installed
    /\ toLowerCase(path.ext) \in ALLOWED_IMAGE_EXTENSIONS
    /\ nClicks' = nClicks + 1
    /\ rowIconPath' = [rowIconPath EXCEPT ![id] = path]
    /\ UNCHANGED <<catFile, edVars, lastAdd, lastEdit, lastCopy, iconDirs,
                   allIconCategories, allIconApps, widgetIconPath>>
    /\ UNCHANGED <<popupSide, installed, obsRoundTrip>>

\* showEditApplicationDialog, '_Reset': the name of the row is reset and
\* removePicture(false, row.id) removes the icon of the application
EditApplicationReset(id) ==
    /\ edOpen
    /\ nClicks < MaxClicks
    /\ appsListSensitive
    /\ id \in installed
    /\ nClicks' = nClicks + 1
    /\ LET removed == removePicture([dir |-> iconAppsDir, index |-> allIconApps], id) IN
        /\ iconAppsDir' = removed.dir
        /\ allIconApps' = removed.index
    /\ UNCHANGED <<catFile, edVars, lastAdd, lastEdit, lastCopy, iconCategoriesDir,
                   allIconCategories, widgetIconPath, rowIconPath>>
    /\ UNCHANGED <<popupSide, installed, obsRoundTrip>>

\* fillPreferencesWindow: changesMade = cleanupCategories(); saved if true
CleanupPass ==
    /\ lastEdit.op = "none"
    /\ LET cleaned == cleanupCategories(categories, installed) IN
        /\ categories' = cleaned.map
        /\ catFile' = IF cleaned.changesMade THEN saveCategoriesToFile(cleaned.map)
                      ELSE catFile
        /\ lastEdit' = [op |-> "cleanup", name |-> <<>>, delta |-> 0,
                        before |-> categories, after |-> cleaned.map,
                        wrote |-> cleaned.changesMade, at |-> 0]
    /\ UNCHANGED <<edOpen, categoryEntryText, selectedRow, addButtonLabel,
                   addButtonSensitive, appsListSensitive, selectionRank, selectedApps,
                   allAppsActive, searchAppActive, nClicks, lastAdd>>
    /\ UNCHANGED <<popupSide, installed, obsRoundTrip>>
    /\ UNCHANGED <<iconDirs, edIconVars, lastCopy>>

(***************************************************************************)
(* Specifications                                                          *)
(***************************************************************************)
\* the popup's watchers and the shared debounce timer
InitWatch ==
    /\ catFile = saveCategoriesToFile(StoreWorkPlay)
    /\ recFile = NoFile
    /\ fileLines = <<>>
    /\ installed = AppIds
    /\ rtSaved = <<>>
    /\ NoIcons
    /\ InitExtension
    /\ InitEditor
    /\ InitObservers

NextWatch ==
    \/ Enable
    \/ Disable
    \/ \E e \in FileMonitorEvents : CategoriesFileChanged(e)
    \/ InstalledChanged
    \/ AppDirChanged
    \/ TimerFires

SpecWatch == InitWatch /\ [][NextWatch]_vars

\* enable and disable around the menu handlers that schedule idle callbacks
InitTeardown ==
    /\ catFile = saveCategoriesToFile(StoreMenu)
    /\ recFile = NoFile
    /\ fileLines = <<>>
    /\ installed = AppIds
    /\ rtSaved = <<>>
    /\ NoIcons
    /\ InitExtension
    /\ InitEditor
    /\ InitObservers

NextTeardown ==
    \/ NextWatch
    \/ MenuOpened
    \/ AllAppsActivated
    \/ IdleRuns

SpecTeardown == InitTeardown /\ [][NextTeardown]_vars

\* reloads of a categories file that other processes write and delete
NextReload ==
    \/ NextWatch
    \/ ExternalEdit

SpecReload == InitWatch /\ [][NextReload]_vars

\* the recents list over sessions of the popup
InitRecents ==
    /\ catFile = NoFile
    /\ recFile = NoFile
    /\ fileLines = <<>>
    /\ installed = AppIds
    /\ rtSaved = <<>>
    /\ NoIcons
    /\ InitExtension
    /\ InitEditor
    /\ InitObservers

NextRecents ==
    \/ Enable
    \/ Disable
    \/ ActivateFresh
    \/ ActivateAgain
    \/ ActivateBare

SpecRecents == InitRecents /\ [][NextRecents]_vars

\* loadRecentsFromDisk on a recents.jsonl that another program wrote
InitRecentsFile ==
    /\ catFile = NoFile
    /\ rtSaved = <<>>
    /\ fileLines \in RecentsFiles
    /\ recFile = FileOf(JoinLines([i \in DOMAIN fileLines |-> RecentLine(fileLines[i])]))
    /\ installed = AppIds
    /\ NoIcons
    /\ InitExtension
    /\ InitEditor
    /\ InitObservers

NextRecentsFile ==
    \/ Enable
    \/ Disable

SpecRecentsFile == InitRecentsFile /\ [][NextRecentsFile]_vars

\* saveCategoriesToFile followed by a load in a process that starts empty
InitRoundTrip ==
    /\ catFile = NoFile
    /\ recFile = NoFile
    /\ fileLines = <<>>
    /\ installed = AppIds
    /\ rtSaved \in RoundTripStores
    /\ NoIcons
    /\ InitExtension
    /\ InitEditor
    /\ InitObservers

RoundTripSave ==
    /\ rtPhase = "start"
    /\ rtPhase' = "saved"
    /\ catFile' = saveCategoriesToFile(rtSaved)
    /\ UNCHANGED <<popupSide, installed, edVars, obsEditor, rtSaved, rtLoaded,
                   iconDirs, edIconVars, lastCopy>>

RoundTripLoadEditor ==
    /\ rtPhase = "saved"
    /\ rtPhase' = "editor"
    /\ rtLoaded' = loadCategories(<<>>, catFile).map
    /\ UNCHANGED <<catFile, popupSide, installed, edVars, obsEditor, rtSaved,
                   iconDirs, edIconVars, lastCopy>>

RoundTripLoadPopup ==
    /\ rtPhase = "saved"
    /\ rtPhase' = "popup"
    /\ rtLoaded' = loadCategoriesFromDisk(<<>>, catFile).map
    /\ UNCHANGED <<catFile, popupSide, installed, edVars, obsEditor, rtSaved,
                   iconDirs, edIconVars, lastCopy>>

NextRoundTrip ==
    \/ RoundTripSave
    \/ RoundTripLoadEditor
    \/ RoundTripLoadPopup

SpecRoundTrip == InitRoundTrip /\ [][NextRoundTrip]_vars

\* the preferences window: opened once, then the user's clicks and typing
InitEditorRun ==
    /\ catFile \in EditorFiles
    /\ recFile = NoFile
    /\ fileLines = <<>>
    /\ installed \in InstalledChoices
    /\ rtSaved = <<>>
    /\ NoIcons
    /\ InitExtension
    /\ InitEditor
    /\ InitObservers

NextEditor ==
    \/ FillPreferencesWindow
    \/ \E text \in EditorNames \cup {<<>>} : TypeName(text)
    \/ \E id \in AppIds : ClickAppRow(id)
    \/ \E name \in EditorNames \cup {ALL_APPS_CAT_NAME} : ClickCategoryRow(name)
    \/ ClickAdd
    \/ \E name \in EditorNames \cup {ALL_APPS_CAT_NAME} : ClickClose(name)
    \/ \E delta \in {-1, 1} : MoveSelected(delta)
    \/ \E categoryName \in {ALL_APPS_CAT_NAME, SEARCH_APP_CAT_NAME} : ToggleSpecial(categoryName)

SpecEditor == InitEditorRun /\ [][NextEditor]_vars

\* cleanupCategories on any store, with any set of shown applications
InitCleanup ==
    /\ catFile = NoFile
    /\ recFile = NoFile
    /\ fileLines = <<>>
    /\ installed \in SUBSET AppIds
    /\ rtSaved = <<>>
    /\ NoIcons
    /\ InitExtension
    /\ edOpen = FALSE
    /\ categories \in CleanupStores
    /\ allIconCategories = EmptyIndex
    /\ allIconApps = EmptyIndex
    /\ widgetIconPath = [w \in IconWidgets |-> NoPath]
    /\ rowIconPath = [id \in AppIds |-> NoPath]
    /\ categoryEntryText = <<>>
    /\ selectedRow = NoRow
    /\ addButtonLabel = "Add Category"
    /\ addButtonSensitive = FALSE
    /\ appsListSensitive = FALSE
    /\ selectionRank = [id \in AppIds |-> 0]
    /\ selectedApps = {}
    /\ allAppsActive = FALSE
    /\ searchAppActive = FALSE
    /\ InitObservers

NextCleanup == CleanupPass

SpecCleanup == InitCleanup /\ [][NextCleanup]_vars

\* the preferences window over icon directories an earlier session left
InitIcons ==
    /\ catFile = saveCategoriesToFile(StoreWorkPlay)
    /\ recFile = NoFile
    /\ fileLines = <<>>
    /\ installed = AppIds
    /\ rtSaved = <<>>
    /\ iconCategoriesDir = StoredCategoryIcons
    /\ iconAppsDir = StoredAppIcons
    /\ InitExtension
    /\ InitEditor
    /\ InitObservers

NextIcons ==
    \/ FillPreferencesWindow
    \/ \E text \in EditorNames \cup {<<>>} : TypeName(text)
    \/ \E id \in AppIds : ClickAppRow(id)
    \/ \E name \in EditorNames : ClickCategoryRow(name)
    \/ ClickAdd
    \/ \E name \in EditorNames : ClickClose(name)
    \/ \E name \in {ALL_APPS_CAT_NAME, SEARCH_APP_CAT_NAME} : ToggleSpecial(name)
    \/ \E icon \in IconWidgets, path \in ChosenPaths : SelectImage(icon, path)
    \/ \E id \in AppIds, path \in ChosenPaths : EditApplicationSave(id, path)
    \/ \E id \in AppIds : EditApplicationReset(id)

SpecIcons == InitIcons /\ [][NextIcons]_vars

\* the preferences window after fillPreferencesWindow found store in the
\* categories file, with nothing to clean up and no special category
EditorOpened(store) ==
    /\ edOpen = TRUE
    /\ categories = store
    /\ categoryEntryText = <<>>
    /\ selectedRow = NoRow
    /\ addButtonLabel = "Add Category"
    /\ addButtonSensitive = FALSE
    /\ appsListSensitive = FALSE
    /\ selectionRank = [id \in AppIds |-> 0]
    /\ selectedApps = {}
    /\ allAppsActive = FALSE
    /\ searchAppActive = FALSE
    /\ allIconCategories \in getAllIcons(iconCategoriesDir)
    /\ allIconApps \in getAllIcons(iconAppsDir)
    /\ widgetIconPath = [w \in IconWidgets |-> NoPath]
    /\ rowIconPath = [id \in AppIds |-> NoPath]

\* the popup beside an open preferences window in which icons are removed
InitIconReload ==
    /\ catFile = saveCategoriesToFile(StoreWorkPlay)
    /\ recFile = NoFile
    /\ fileLines = <<>>
    /\ installed = AppIds
    /\ rtSaved = <<>>
    /\ iconCategoriesDir = StoredCategoryIcons
    /\ iconAppsDir = StoredAppIcons
    /\ InitExtension
    /\ EditorOpened(StoreWorkPlay)
    /\ InitObservers

NextIconReload ==
    \/ Enable
    \/ Disable
    \/ \E e \in FileMonitorEvents : CategoriesFileChanged(e)
    \/ TimerFires
    \/ \E name \in EditorNames : ClickCategoryRow(name)
    \/ \E name \in EditorNames : ClickClose(name)
    \/ \E id \in AppIds : EditApplicationReset(id)

SpecIconReload == InitIconReload /\ [][NextIconReload]_vars

\* the popup and the open preferences window side by side: launches, edits
\* of the store and of the icons, and the categories-file monitor
LaunchApplication ==
    /\ nFresh < MaxLaunches
    /\ ActivateFresh

NextSurfaces ==
    \/ Enable
    \/ Disable
    \/ LaunchApplication
    \/ FileEventDelivered
    \/ TimerFires
    \/ \E name \in EditorNames : ClickCategoryRow(name)
    \/ ClickAdd
    \/ \E name \in EditorNames : ClickClose(name)
    \/ \E id \in AppIds : EditApplicationReset(id)

SpecSurfaces == InitIconReload /\ [][NextSurfaces]_vars

\* the menu of the popup under the pointer and the keys, with reloads of a
\* categories file that is edited from outside
SearchTexts == {<<"a">>, <<" ", "B">>}

NextMenu ==
    \/ Enable
    \/ ExternalEditTo(saveCategoriesToFile(StoreWorkPlay))
    \/ FileEventDelivered
    \/ TimerFires
    \/ MenuOpened
    \/ \E item \in EditorNames \cup {ALL_APPS_CAT_NAME, SEARCH_APP_CAT_NAME, RECENTS_CAT} :
          MouseEnter(item)
    \/ \E text \in SearchTexts : SearchTyped(text)
    \/ NavigateToApps
    \/ NavigateToCategories
    \/ \E direction \in {-1, 1} : NavigateVertical(direction)

SpecMenu == InitTeardown /\ [][NextMenu]_vars

\* the preferences window opened on a file and the edits that save it
InitOpen ==
    /\ catFile \in OpenFiles
    /\ recFile = NoFile
    /\ fileLines = <<>>
    /\ installed \in InstalledChoices
    /\ rtSaved = <<>>
    /\ NoIcons
    /\ InitExtension
    /\ InitEditor
    /\ InitObservers

NextOpen ==
    \/ FillPreferencesWindow
    \/ \E name \in EditorNames : ClickCategoryRow(name)
    \/ \E name \in EditorNames : ClickClose(name)
    \/ \E delta \in {-1, 1} : MoveSelected(delta)
    \/ \E categoryName \in {ALL_APPS_CAT_NAME, SEARCH_APP_CAT_NAME} : ToggleSpecial(categoryName)

SpecOpen == InitOpen /\ [][NextOpen]_vars

\* the popup and the open preferences window on a store whose ranks an edit
\* from outside has tied
InitTies ==
    /\ NoIcons
    /\ \E store \in TiedStores :
        /\ catFile = saveCategoriesToFile(store)
        /\ EditorOpened(store)
    /\ recFile = NoFile
    /\ fileLines = <<>>
    /\ installed = AppIds
    /\ rtSaved = <<>>
    /\ InitExtension
    /\ InitObservers

NextTies ==
    \/ Enable
    \/ Disable
    \/ \E name \in EditorNames : ClickCategoryRow(name)
    \/ \E delta \in {-1, 1} : MoveSelected(delta)

SpecTies == InitTies /\ [][NextTies]_vars

(***************************************************************************)
(* Claims                                                                  *)
(***************************************************************************)

\* C3: while the extension is enabled, every qualifying change event on the
\* categories file is eventually followed by a reload, whatever other events
\* (installed-changed, application-directory changes) are interleaved.  A
\* reload is only ever run by an armed timer whose callback reloads, so, armed
\* timers firing, the claim says that an owed reload has such a timer.
C3_OwedReloadIsArmed ==
    reloadOwed => \E t \in timers : t.kind = "categories"

\* C4: in a burst of k >= 1 qualifying categories-file events, each arriving
\* while the timer armed by the previous one is still pending, the reload
\* runs not at all while the last event's timer is pending and exactly once
\* when it has expired.
C4_BurstReloadsOnce ==
    burstK >= 1 =>
        burstReloads = (IF burstTimer \in TimerIds(timers) THEN 0 ELSE 1)

C4_Witness ==
    burstK >= 2 /\ burstTimer \notin TimerIds(timers) /\ burstReloads = 1

IdsOf(list) == [i \in DOMAIN list |-> RecentId(list[i])]
BumpedBefore(a, b) == bumpSeq[a] < bumpSeq[b]
\* the id numbers launched so far, most recent first
RECURSIVE ByRecency(_)
ByRecency(ns) ==
    IF ns = {} THEN <<>>
    ELSE LET n == CHOOSE m \in ns : \A o \in ns \ {m} : BumpedBefore(o, m)
         IN  <<RecentAppId(n)>> \o ByRecency(ns \ {n})

C7_FailedLoadKeepsMap ==
    lastLoad.outcome = "parse_error" => lastLoad.after = lastLoad.before

\* C8: a load while the categories file does not exist leaves the in-memory
\* store empty, whatever it held before.
C8_MissingFileGivesEmptyStore ==
    lastLoad.outcome = "read_error" => lastLoad.after = <<>>

\* C5: saveCategoriesToFile followed by a load of the written file gives a map
\* with the same keys in the same order and equal name, rank and apps.
C5_SaveLoadRoundTrip ==
    rtPhase \in {"editor", "popup"} => rtLoaded = rtSaved

\* two categories, one with a null rank, names holding a quote and a line feed
C5_Witness ==
    /\ rtPhase = "popup"
    /\ Len(rtSaved) = 2
    /\ \E i \in DOMAIN rtSaved : rtSaved[i].rank = NullRank /\ rtSaved[i].apps # <<>>
    /\ \E i \in DOMAIN rtSaved : "\n" \in Range(rtSaved[i].name)
    /\ \E i \in DOMAIN rtSaved : "\"" \in Range(rtSaved[i].name)
    /\ rtLoaded = rtSaved

\* the lines of the recents file that are records with a string id
RecordLines == SelectSeq(fileLines, LAMBDA kind : kind \in {"record1", "record2"})

\* C9: loadRecentsFromDisk on a file whose lines are well-formed records and
\* lines that are not JSON yields the well-formed records, in file order.
C9_MalformedLinesSkipped ==
    (/\ enabled
     /\ \E i \in DOMAIN fileLines : fileLines[i] = "garbage"
     /\ \A i \in DOMAIN fileLines : fileLines[i] # "noid") =>
        IdsOf(recents) =
            [i \in DOMAIN RecordLines |->
                IF RecordLines[i] = "record1" THEN RecentAppId(1) ELSE RecentAppId(2)]

\* the ranks of the ranked categories are exactly 1..N
RanksDense(map) ==
    LET ranked == SelectSeq(map, LAMBDA c : c.rank # NullRank)
    IN  {ranked[i].rank : i \in DOMAIN ranked} = 1..Len(ranked)

\* C1: after any sequence of editor operations from a store with ranks 1..N,
\* the non-null category ranks are exactly 1..N', without gaps or repeats.
C1_CategoryRanksDense == edOpen => RanksDense(categories)

\* C2: in every category written by the add button or by the cleanup pass,
\* the ranks of the apps are exactly 1..apps.length.
C2_AppRanksDense ==
    edOpen => \A i \in DOMAIN categories :
                {categories[i].apps[k].rank : k \in DOMAIN categories[i].apps}
                    = 1..Len(categories[i].apps)

\* C10: a click on the add button replaces the targeted entry at its position
\* or appends a new name; the count changes by +1 for a new name only and
\* every other category keeps its position, name, rank and apps.
C10_AddReplacesInPlace ==
    lastAdd.clicked =>
        LET before == lastAdd.before
            after == lastAdd.after
            pos == IndexOf(MapKeys(before),
                           IF lastAdd.isUpdate THEN lastAdd.oldName ELSE lastAdd.newName)
        IN  IF pos = 0
            THEN /\ Len(after) = Len(before) + 1
                 /\ SubSeq(after, 1, Len(before)) = before
                 /\ after[Len(after)].name = lastAdd.newName
            ELSE /\ Len(after) = Len(before)
                 /\ after[pos].name = lastAdd.newName
                 /\ \A i \in DOMAIN before : i # pos => after[i] = before[i]

\* C11: the close button deletes exactly its category; the remaining ranked
\* categories keep their rank order and get ranks 1..N-1, unranked ones stay
\* unranked, the apps lists are unchanged and the result is saved.
C11_CloseRemovesAndRenumbers ==
    lastEdit.op = "close" =>
        LET before == lastEdit.before
            after == lastEdit.after
            kept == SelectSeq(before, LAMBDA c : c.name # lastEdit.name)
            ranked == {i \in DOMAIN after : after[i].rank # NullRank}
        IN  /\ Len(kept) = Len(before) - 1
            /\ MapKeys(after) = MapKeys(kept)
            /\ \A i \in DOMAIN after :
                /\ after[i].apps = kept[i].apps
                /\ (after[i].rank = NullRank) <=> (kept[i].rank = NullRank)
            /\ {after[i].rank : i \in ranked} = 1..Cardinality(ranked)
            /\ \A i, j \in ranked :
                kept[i].rank < kept[j].rank => after[i].rank < after[j].rank
            /\ lastEdit.at = nClicks =>
                /\ categories = after
                /\ catFile = saveCategoriesToFile(after)

\* Work (rank 1) was closed: Play went from rank 2 to rank 1 and the unranked
\* category stayed unranked
C11_Witness ==
    /\ lastEdit.op = "close"
    /\ lastEdit.at = nClicks
    /\ lastEdit.name = NameWork
    /\ MapHas(lastEdit.before, NamePlay) /\ MapGet(lastEdit.before, NamePlay).rank = 2
    /\ MapGet(categories, NamePlay).rank = 1
    /\ \E i \in DOMAIN categories : categories[i].rank = NullRank

\* C12: after cleanupCategories no category holds an entry whose id is not
\* shown, the surviving entries keep their order and have ranks 1..M, the
\* category ranks are unchanged, and true is returned exactly when an entry
\* was removed.
C12_CleanupPrunesAndRenumbers ==
    lastEdit.op = "cleanup" =>
        LET before == lastEdit.before
            after == lastEdit.after
            Surviving(apps) == SelectSeq(apps, LAMBDA app : DesktopIdOf(app.id) \in installed)
        IN  /\ MapKeys(after) = MapKeys(before)
            /\ \A i \in DOMAIN before :
                /\ after[i].rank = before[i].rank
                /\ [k \in DOMAIN after[i].apps |-> after[i].apps[k].id]
                     = [k \in DOMAIN Surviving(before[i].apps) |->
                            Surviving(before[i].apps)[k].id]
                /\ {after[i].apps[k].rank : k \in DOMAIN after[i].apps}
                     = 1..Len(after[i].apps)
            /\ lastEdit.wrote <=>
                \E i \in DOMAIN before :
                    Len(Surviving(before[i].apps)) < Len(before[i].apps)

\* C13: a move of a ranked category that has a ranked category on the side it
\* moves to exchanges the ranks of the category and its neighbour in rank
\* order; every other rank, every name and every apps list is unchanged, and
\* the ranks in use are the same.
C13_MoveSwapsNeighbours ==
    lastEdit.op = "move" /\ MapHas(lastEdit.before, lastEdit.name) =>
        LET before == lastEdit.before
            after == lastEdit.after
            delta == lastEdit.delta
            current == MapGet(before, lastEdit.name)
            \* the ranked categories on the side the move goes to
            beyond == {i \in DOMAIN before :
                        /\ before[i].rank # NullRank
                        /\ before[i].name # lastEdit.name
                        /\ IF delta = 1 THEN before[i].rank > current.rank
                                        ELSE before[i].rank < current.rank}
            \* ranked categories that nothing lies strictly between
            Adjacent(i) ==
                /\ before[i].rank # NullRank
                /\ before[i].name # lastEdit.name
                /\ IF delta = 1 THEN before[i].rank >= current.rank
                                ELSE before[i].rank =< current.rank
                /\ \A k \in beyond :
                    IF delta = 1 THEN before[k].rank >= before[i].rank
                                 ELSE before[k].rank =< before[i].rank
        IN  current.rank # NullRank /\ beyond # {} =>
                /\ lastEdit.wrote
                /\ MapKeys(after) = MapKeys(before)
                /\ \A i \in DOMAIN before : after[i].apps = before[i].apps
                /\ \E j \in DOMAIN before :
                    /\ Adjacent(j)
                    /\ after[j].rank = current.rank
                    /\ MapGet(after, lastEdit.name).rank = before[j].rank
                    /\ \A i \in DOMAIN before \ {j} :
                        before[i].name # lastEdit.name => after[i].rank = before[i].rank
                /\ {after[i].rank : i \in DOMAIN after} = {before[i].rank : i \in DOMAIN before}
                /\ lastEdit.at = nClicks =>
                    categories = after /\ catFile = saveCategoriesToFile(after)

\* a category was moved down past its neighbour while an unranked category
\* kept its place
C13_Witness ==
    /\ lastEdit.op = "move"
    /\ lastEdit.at = nClicks
    /\ lastEdit.delta = 1
    /\ lastEdit.wrote
    /\ lastEdit.name = NameWork
    /\ MapGet(lastEdit.before, NameWork).rank = 1
    /\ MapGet(categories, NameWork).rank = 2
    /\ MapGet(categories, NamePlay).rank = 1
    /\ \E i \in DOMAIN categories : categories[i].rank = NullRank

\* C14: a move up of the category with the lowest rank, a move down of the
\* category with the highest rank and a move of a category without rank leave
\* the category map as it was and do not write the categories file.
C14_MoveAtBoundaryIsNoop ==
    lastEdit.op = "move" /\ MapHas(lastEdit.before, lastEdit.name) =>
        LET before == lastEdit.before
            current == MapGet(before, lastEdit.name)
            others == {before[i].rank : i \in {k \in DOMAIN before :
                        before[k].rank # NullRank /\ before[k].name # lastEdit.name}}
            lowest == \A r \in others : current.rank < r
            highest == \A r \in others : current.rank > r
        IN  \/ current.rank = NullRank
            \/ lastEdit.delta = -1 /\ lowest
            \/ lastEdit.delta = 1 /\ highest
            => /\ lastEdit.after = before
               /\ ~lastEdit.wrote
               /\ lastEdit.at = nClicks => categories = before

\* the top category of two was moved up and nothing happened
C14_Witness ==
    /\ lastEdit.op = "move"
    /\ lastEdit.at = nClicks
    /\ lastEdit.delta = -1
    /\ lastEdit.name = NameWork
    /\ MapGet(lastEdit.before, NameWork).rank = 1
    /\ MapHas(lastEdit.before, NamePlay)
    /\ MapGet(lastEdit.before, NamePlay).rank = 2
    /\ categories = lastEdit.before
    /\ ~lastEdit.wrote

\* C15: once disable() has returned, no callback of the extension runs: not
\* the debounce timer's, not a monitor's or the installed-changed handler's,
\* not an idle callback scheduled by a menu handler; disable() leaves nothing
\* pending.
C15_NoCallbackAfterDisable ==
    /\ lateCallback = "none"
    /\ ~enabled => timers = {} /\ idleSources = {} /\ reloadTimeoutId = 0

\* C16: between handlers, every entry of the category and application icon
\* indexes of the preferences window and of the popup names a file that
\* exists in the icon directory of the index.
C16_IndexEntriesHaveFiles ==
    /\ \A b \in DOMAIN allIconCategories :
        IconFile(b, allIconCategories[b]) \in iconCategoriesDir
    /\ \A b \in DOMAIN allIconApps : IconFile(b, allIconApps[b]) \in iconAppsDir
    /\ \A b \in DOMAIN extAllIconCategories :
        IconFile(b, extAllIconCategories[b]) \in iconCategoriesDir
    /\ \A b \in DOMAIN extAllIconApps : IconFile(b, extAllIconApps[b]) \in iconAppsDir

\* C17: from icon directories with at most one icon file per name and
\* matching indexes, the icon operations of the preferences window leave at
\* most one icon file per name in each icon directory.
C17_OneIconFilePerName ==
    /\ \A f, g \in iconCategoriesDir : f.base = g.base => f = g
    /\ \A f, g \in iconAppsDir : f.base = g.base => f = g

\* C18: when the copy of an icon fails during a click on the add button, the
\* category map and the categories file are as before the click, and every
\* icon the category index held before is still indexed and still on disk.
C18_FailedCopyAbortsAdd ==
    lastCopy.failed /\ lastCopy.at = nClicks =>
        /\ categories = lastCopy.mapBefore
        /\ catFile = lastCopy.fileBefore
        /\ \A b \in DOMAIN lastCopy.indexBefore :
            /\ b \in DOMAIN allIconCategories
            /\ allIconCategories[b] = lastCopy.indexBefore[b]
            /\ IconFile(b, lastCopy.indexBefore[b]) \in iconCategoriesDir

\* a step in which bumpRecent changed the recents list and saved it
PopupSaved == enabled /\ enabled' /\ recents' # recents
\* the monitor has something to report
FileEventPending == monitorSeen # NoMonitor /\ WatchedByCategoriesMonitor # monitorSeen

\* C19: a save of the recents by the popup gives the popup's categories-file
\* monitor nothing to report, arms no timer and reloads no categories; as
\* long as the popup is the only writer the watcher has never left Idle.
C19_PopupSaveLeavesWatcherIdle ==
    /\ [](nClicks = 0 /\ nEdits = 0 =>
            ~FileEventPending /\ nEvents = 0 /\ timers = {} /\ reloadTimeoutId = 0)
    /\ [][PopupSaved =>
            /\ FileEventPending' = FileEventPending
            /\ UNCHANGED <<reloadTimeoutId, timers, extCategories, lastLoad>>]_vars

\* the popup saved the recents twice and its watcher is idle
C19_Witness ==
    /\ enabled
    /\ nFresh >= 2
    /\ recFile.exists
    /\ monitorSeen # NoMonitor
    /\ ~FileEventPending
    /\ reloadTimeoutId = 0
    /\ nClicks = 0

\* a step of the popup and a step of the preferences window
PopupStep == <<extVars, idleVars, extIconVars, monitorSeen>>' # <<extVars, idleVars, extIconVars, monitorSeen>>
EditorStep == <<edVars, edIconVars, nClicks>>' # <<edVars, edIconVars, nClicks>>

\* C20: no step of the preferences window changes recents.jsonl, and no step
\* of the popup changes categories.jsonl or an icon directory: recents.jsonl
\* is the only file the popup writes.
C20_SurfacesWriteOnlyTheirFiles ==
    [][/\ EditorStep => recFile' = recFile
       /\ PopupStep => UNCHANGED <<catFile, iconCategoriesDir, iconAppsDir>>
       /\ recFile' # recFile => PopupStep /\ ~EditorStep]_vars

\* both surfaces have written: the popup the recents, the preferences window
\* the categories file and an icon directory
C20_Witness ==
    /\ enabled
    /\ recFile.exists
    /\ nClicks >= 2
    /\ catFile # saveCategoriesToFile(StoreWorkPlay)
    /\ iconAppsDir = {}


\* the names of the categories in ascending order
NameOrder == <<NameGame, NamePlay, NameWork>>
NameBefore(a, b) == IndexOf(NameOrder, a) < IndexOf(NameOrder, b)
\* the categories of names that carry the same non-null rank come by name
TiesByName(map, names) ==
    \A i, j \in DOMAIN names :
        (/\ i < j
         /\ MapGet(map, names[i]).rank # NullRank
         /\ MapGet(map, names[i]).rank = MapGet(map, names[j]).rank)
        => NameBefore(names[i], names[j])
\* the ranked categories by rank and, among equal ranks, by name
ByRankThenName(map) ==
    LET ranked == SelectSeq(map, LAMBDA c : c.rank # NullRank)
    IN  MapKeys(Sort(ranked, [i, j \in DOMAIN ranked |->
                    \/ ranked[i].rank < ranked[j].rank
                    \/ (ranked[i].rank = ranked[j].rank
                        /\ NameBefore(ranked[i].name, ranked[j].name))]))
\* the ranks of the categories a and b exchanged
RanksSwapped(map, a, b) ==
    [i \in DOMAIN map |->
        IF map[i].name = a THEN [map[i] EXCEPT !.rank = MapGet(map, b).rank]
        ELSE IF map[i].name = b THEN [map[i] EXCEPT !.rank = MapGet(map, a).rank]
        ELSE map[i]]

\* C21: categories that carry the same non-null rank come in order of their
\* names in the list of the preferences window and in the menu of the popup,
\* and a move exchanges ranks with the neighbour in the order by rank and name
C21_TiedRanksOrderedByName ==
    /\ edOpen => TiesByName(categories, ListRows(categories))
    /\ enabled => TiesByName(extCategories, populateCategoriesMenu(extCategories))
    /\ (lastEdit.op = "move" /\ lastEdit.at = nClicks) =>
        LET order == ByRankThenName(lastEdit.before)
            newIndex == IndexOf(order, lastEdit.name) + lastEdit.delta
        IN  IF newIndex < 1 \/ newIndex > Len(order)
            THEN lastEdit.after = lastEdit.before
            ELSE lastEdit.after = RanksSwapped(lastEdit.before, lastEdit.name, order[newIndex])

\* C22: after every icon operation of the preferences window each index
\* is a map getAllIcons can return for its directory at that moment
C22_IndexMatchesDirectory ==
    edOpen =>
        /\ allIconCategories \in getAllIcons(iconCategoriesDir)
        /\ allIconApps \in getAllIcons(iconAppsDir)


\* C23: an arrow pressed on a selected category that is not at that end of
\* the displayed list moves the category one row in the displayed list
C23_MoveShiftsDisplayedRow ==
    (lastEdit.op = "move" /\ lastEdit.at = nClicks) =>
        LET rows == ListRows(lastEdit.before)
            position == IndexOf(rows, lastEdit.name)
            newPosition == position + lastEdit.delta
        IN  (position >= 1 /\ newPosition >= 1 /\ newPosition <= Len(rows)) =>
                IndexOf(ListRows(lastEdit.after), lastEdit.name) = newPosition

\* the names of the categories on the well-formed lines of a categories file
NamesInFile(file) ==
    IF ~file.exists THEN {}
    ELSE LET parsed == {JSONparse(line) : line \in Range(NonBlankLines(file.text))}
         IN  {CategoryOfJSON(r.v).name : r \in {q \in parsed : q.ok /\ q.v.t # "null"}}

\* C24: no step of the preferences window leaves the categories file
\* without a category it held, unless the step is the user's removal of
\* that category
C24_SavesKeepLoadedCategories ==
    [][\A name \in NamesInFile(catFile) :
          \/ name \in NamesInFile(catFile')
          \/ ClickClose(name)
          \/ ToggleSpecial(name)]_vars

\* C29: opening the preferences window writes the categories file only when
\* cleanupCategories reported a change; otherwise the map is the loaded map
C29_OpenWritesOnlyAfterCleanup ==
    (/\ lastEdit.op = "open"
     /\ nClicks = 0
     /\ ~cleanupCategories(lastEdit.before, installed).changesMade) =>
        /\ ~lastEdit.wrote
        /\ lastEdit.after = lastEdit.before


\* C28: while the extension is enabled, an installed-changed signal or an
\* application-directory event that no refresh of allApps has followed yet
\* has a timer armed whose callback refreshes allApps
C28_OwedRefreshIsArmed ==
    refreshOwed => \E t \in timers : t.kind = "apps"

\* C30: at most one debounce timer is armed, and reloadTimeoutId is the id
\* of the armed timer when there is one and 0 when there is none
C30_OneTrackedTimer ==
    /\ Cardinality(timers) <= 1
    /\ reloadTimeoutId # 0 <=> timers # {}
    /\ \A t \in timers : t.id = reloadTimeoutId
    /\ ~enabled => timers = {}

\* after a reload has run and two more timers were armed, the timer of an
\* application-list event is armed
C30_Witness ==
    /\ enabled
    /\ nEvents >= 3
    /\ reloadTimeoutId >= 3
    /\ timers = {[id |-> reloadTimeoutId, kind |-> "apps"]}
    /\ burstReloads >= 1


\* C25: when the pointer has entered the item of a category, the apps column
\* holds one item for each application of the category that is installed
\* and shown, in the order of the category, whatever the search text was
C25_CategoryEnterShowsItsApps ==
    [][\A name \in Range(populateCategoriesMenu(extCategories)) :
          MouseEnter(name) =>
              appsMenu' = createAppItems(MapGet(extCategories, name).apps, installed)]_vars

\* C26: menuItemSearch and focusedCategory are null or refer to a child of
\* categoriesMenu
C26_CategoryReferencesAreLive ==
    /\ menuItemSearch => searchItemLive
    /\ focusedCategory.set => focusedCategory.live

\* C27: focusedApp is null or refers to a child of appsMenu, and in the
\* apps column it refers to one
C27_FocusedAppIsDisplayed ==
    /\ focusedApp.set => focusedApp.live /\ focusedApp.item \in DOMAIN appsMenu
    /\ isInAppsColumn => focusedApp.set

=============================================================================
